---------------------------- MODULE Spec2Model ----------------------------
(***************************************************************************)
(* A model of the evaluation engine (src/api/evaluation.py) and of the     *)
(* rewrite and cleanup functions (src/api/kid_safety.py) of the            *)
(* kid-friendly answer service.  A text is a sequence of characters, each  *)
(* character a one-symbol string; the non-ASCII characters the source      *)
(* mentions are written "A^" (A with circumflex), "deg" (the degree sign), *)
(* "u'" (u with acute), "e^" and "o^" (e and o with circumflex) and "c,"   *)
(* (c with cedilla), the capitals of the last four being "U'", "E^", "O^"  *)
(* and "C,".                                                               *)
(* A Python float is modelled by the exact rational it stands for,         *)
(* a record [n |-> numerator, d |-> denominator] in lowest terms with      *)
(* d > 0; round(x, 1) is the only place where the binary representation    *)
(* decides the result (an exact tie), and there both neighbours are        *)
(* allowed.                                                                *)
(***************************************************************************)
EXTENDS Integers, Sequences, FiniteSets, TLC

VARIABLES
    text,       \* the response text handed to the operation
    op,         \* the operation that has run: "none" before any has
    out,        \* the value it returned
    args,       \* the arguments besides the text: those of _calculate_overall_score,
                \* or what the language identifier answered
    batch,      \* the list of (question, response) pairs of evaluate_batch
    report,     \* what evaluate_batch returned, or that it raised
    rate_limiter,   \* the RateLimiter instance: max_requests, window and requests
    lock,           \* rate_limiter._lock: the task that holds it, or "free"
    clock,          \* what datetime.now() answers, in minutes
    tasks,          \* the running coroutines: the function each is in, the
                    \* line it stands at and its local variables
    llm_calls,      \* the generate calls the language model has received
    log             \* the records log_exchange has written

vars == <<text, op, out, args, batch, report, rate_limiter, lock, clock, tasks, llm_calls, log>>

\* the state of the service
server == <<rate_limiter, lock, clock, tasks, llm_calls, log>>

----------------------------------------------------------------------------
(* Characters *)

LowerLetters == <<"a","b","c","d","e","f","g","h","i","j","k","l","m",
                  "n","o","p","q","r","s","t","u","v","w","x","y","z">>
UpperLetters == <<"A","B","C","D","E","F","G","H","I","J","K","L","M",
                  "N","O","P","Q","R","S","T","U","V","W","X","Y","Z">>
Digits == {"0","1","2","3","4","5","6","7","8","9"}
Whitespace == {" ", "\n", "\t"}
Terminators == {".", "!", "?"}
Vowels == {"a", "e", "i", "o", "u"}

Range(s) == {s[i] : i \in 1..Len(s)}

LowerSet == Range(LowerLetters)
UpperSet == Range(UpperLetters)

Chars == LowerSet \cup UpperSet \cup Digits \cup Whitespace \cup Terminators
            \cup {",", "'", "-", "_", ":", ">", "(", ")", "A^", "a^", "deg", "u'", "U'",
                  "e^", "E^", "o^", "O^", "c,", "C,"}

\* str.lower() on one character
LowerMap == [c \in Chars |->
               IF c \in UpperSet
               THEN LowerLetters[CHOOSE i \in 1..26 : UpperLetters[i] = c]
               ELSE IF c = "A^" THEN "a^"
               ELSE IF c = "U'" THEN "u'"
               ELSE IF c = "E^" THEN "e^"
               ELSE IF c = "O^" THEN "o^"
               ELSE IF c = "C," THEN "c," ELSE c]

LowerChar(c) == LowerMap[c]

\* str.lower()
Lower(s) == [i \in 1..Len(s) |-> LowerChar(s[i])]

\* \w of the re module: letters, digits and the underscore
IsWordChar(c) == c \in LowerSet \cup UpperSet \cup Digits
                        \cup {"_", "A^", "a^", "u'", "U'", "e^", "E^", "o^", "O^", "c,", "C,"}

----------------------------------------------------------------------------
(* Strings *)

RECURSIVE LStrip(_)
LStrip(s) == IF s # <<>> /\ Head(s) \in Whitespace THEN LStrip(Tail(s)) ELSE s

RECURSIVE RStrip(_)
RStrip(s) == IF s # <<>> /\ s[Len(s)] \in Whitespace
             THEN RStrip(SubSeq(s, 1, Len(s) - 1)) ELSE s

\* str.strip()
Strip(s) == RStrip(LStrip(s))

\* the positions lo..hi that marks holds TRUE at, in increasing order
RECURSIVE Positions(_, _, _)
Positions(marks, lo, hi) ==
    IF lo > hi THEN <<>>
    ELSE IF lo = hi THEN (IF marks[lo] THEN <<lo>> ELSE <<>>)
    ELSE LET mid == (lo + hi) \div 2
         IN  Positions(marks, lo, mid) \o Positions(marks, mid + 1, hi)

\* where the maximal runs of marked positions start, and where they end
RunStarts(marks) ==
    Positions([i \in DOMAIN marks |-> marks[i] /\ (i = 1 \/ ~marks[i - 1])],
              1, Len(marks))
RunEnds(marks) ==
    Positions([i \in DOMAIN marks |-> marks[i] /\ (i = Len(marks) \/ ~marks[i + 1])],
              1, Len(marks))

\* the maximal runs of marked characters of s, in order
Runs(s, marks) ==
    LET starts == RunStarts(marks)
        ends == RunEnds(marks)
    IN  [k \in 1..Len(starts) |-> SubSeq(s, starts[k], ends[k])]

\* str.split(): the maximal runs of non-whitespace characters, in order
Split(s) == Runs(s, [i \in 1..Len(s) |-> s[i] \notin Whitespace])

\* pat in s
Contains(s, pat) ==
    \E i \in 1..(Len(s) - Len(pat) + 1) : SubSeq(s, i, i + Len(pat) - 1) = pat

\* s.endswith(pat)
EndsWith(s, pat) ==
    Len(s) >= Len(pat) /\ SubSeq(s, Len(s) - Len(pat) + 1, Len(s)) = pat

\* re.split(r'[.!?]+', s): the pieces between the maximal runs of terminators,
\* the empty pieces at either end included
ReSplitTerminators(s) ==
    LET marks == [i \in 1..Len(s) |-> s[i] \in Terminators]
        starts == RunStarts(marks)
        ends == RunEnds(marks)
        m == Len(starts)
    IN  [k \in 1..(m + 1) |->
           SubSeq(s, IF k = 1 THEN 1 ELSE ends[k - 1] + 1,
                     IF k = m + 1 THEN Len(s) ELSE starts[k] - 1)]

\* re.findall(r'\b\w+\b', s): the maximal runs of word characters, in order
FindWords(s) == Runs(s, [i \in 1..Len(s) |-> IsWordChar(s[i])])

\* a \b of the re module at the gap before position i (1..Len(s)+1)
WordBoundary(s, i) ==
    LET before == i > 1 /\ IsWordChar(s[i - 1])
        after  == i <= Len(s) /\ IsWordChar(s[i])
    IN  before # after

----------------------------------------------------------------------------
(* Numbers *)

RECURSIVE GCD(_, _)
GCD(a, b) == IF b = 0 THEN a ELSE GCD(b, a % b)

Abs(x) == IF x < 0 THEN -x ELSE x

\* the rational n/d (d > 0) in lowest terms
Rat(n, d) == LET g == GCD(Abs(n), d) IN [n |-> n \div g, d |-> d \div g]

Int2Rat(k) == [n |-> k, d |-> 1]

RAdd(x, y) == Rat(x.n * y.d + y.n * x.d, x.d * y.d)
RSub(x, y) == Rat(x.n * y.d - y.n * x.d, x.d * y.d)
RMulInt(x, k) == Rat(x.n * k, x.d)
RLe(x, y) == x.n * y.d <= y.n * x.d
RLt(x, y) == x.n * y.d < y.n * x.d
RMin(x, y) == IF RLe(x, y) THEN x ELSE y
RMax(x, y) == IF RLe(x, y) THEN y ELSE x

\* round(x, 1): the nearest multiples of one tenth.  Of an exact tie the float
\* that stands for x decides, so both neighbours are possible results.
Round1(x) ==
    LET q   == (10 * x.n) \div x.d
        rem == 10 * x.n - q * x.d
    IN  IF 2 * rem < x.d THEN {Rat(q, 10)}
        ELSE IF 2 * rem > x.d THEN {Rat(q + 1, 10)}
        ELSE {Rat(q, 10), Rat(q + 1, 10)}

RECURSIVE SumSeq(_)
SumSeq(s) == IF s = <<>> THEN 0 ELSE Head(s) + SumSeq(Tail(s))

RECURSIVE MaxSeq(_)
MaxSeq(s) == IF Len(s) = 1 THEN s[1]
             ELSE LET m == MaxSeq(Tail(s)) IN IF s[1] >= m THEN s[1] ELSE m

----------------------------------------------------------------------------
(* The lexicon of ResponseEvaluator *)

\* TECHNICAL_TERMS is a Python set: the order in which its members are tried
\* is the set's iteration order, written here as the declared order.
TECHNICAL_TERMS == <<
    <<"m","o","l","e","c","u","l","e">>,
    <<"a","t","o","m">>,
    <<"f","r","e","q","u","e","n","c","y">>,
    <<"v","i","b","r","a","t","i","o","n">>,
    <<"c","h","e","m","i","c","a","l">>,
    <<"f","o","r","m","u","l","a">>,
    <<"c","o","m","p","o","u","n","d">>,
    <<"e","l","e","m","e","n","t">>,
    <<"p","a","r","t","i","c","l","e">>,
    <<"w","a","v","e","l","e","n","g","t","h">>,
    <<"s","p","e","c","t","r","u","m">>,
    <<"a","t","m","o","s","p","h","e","r","i","c">>,
    <<"e","l","e","c","t","r","o","m","a","g","n","e","t","i","c">>,
    <<"s","y","n","t","h","e","s","i","s">>,
    <<"q","u","a","n","t","u","m">>,
    <<"a","l","g","o","r","i","t","h","m">>,
    <<"c","o","e","f","f","i","c","i","e","n","t">>,
    <<"d","e","n","s","i","t","y">>,
    <<"v","e","l","o","c","i","t","y">>,
    <<"a","c","c","e","l","e","r","a","t","i","o","n">>
>>

BANNED_PHRASES == <<
    <<"l","e","t"," ","m","e"," ","e","x","p","l","a","i","n">>,
    <<"g","o","o","d"," ","t","h","i","n","k","i","n","g">>,
    <<"a","c","t","u","a","l","l","y">>,
    <<"b","a","s","i","c","a","l","l","y">>,
    <<"a","s"," ","a","n"," ","a","i">>,
    <<"i"," ","c","a","n"," ","p","r","o","v","i","d","e">>,
    <<"t","h","e","r","e"," ","a","r","e"," ","s","e","v","e","r","a","l"," ","t","y","p","e","s">>
>>

\* the alternatives of the pattern death|die|kill|hurt|scary|monster
ScaryWords == <<
    <<"d","e","a","t","h">>,
    <<"d","i","e">>,
    <<"k","i","l","l">>,
    <<"h","u","r","t">>,
    <<"s","c","a","r","y">>,
    <<"m","o","n","s","t","e","r">>
>>

TagChemicalFormula == <<"c","h","e","m","i","c","a","l","_","f","o","r","m","u","l","a">>
TagDegreeNotation == <<"d","e","g","r","e","e","_","n","o","t","a","t","i","o","n">>
TagScaryContent ==
    <<"p","o","t","e","n","t","i","a","l","l","y","_","s","c","a","r","y","_","c","o","n","t","e","n","t">>
BannedPrefix == <<"b","a","n","n","e","d","_","p","h","r","a","s","e",":"," ">>

----------------------------------------------------------------------------
(* ResponseEvaluator *)

\* [s.strip() for s in pieces if s.strip()]
RECURSIVE StripNonBlank(_)
StripNonBlank(pieces) ==
    IF pieces = <<>> THEN <<>>
    ELSE LET s == Strip(Head(pieces))
         IN  IF s = <<>> THEN StripNonBlank(Tail(pieces))
             ELSE <<s>> \o StripNonBlank(Tail(pieces))

\* [s.strip() for s in pieces], the blank pieces kept
StripAll(pieces) == [i \in 1..Len(pieces) |-> Strip(pieces[i])]

\* a split that forgets to drop the blank pieces
split_sentences_unfiltered(t) == StripAll(ReSplitTerminators(t))

split_sentences(t) == StripNonBlank(ReSplitTerminators(t))

\* the loop of _count_syllables over the lower-cased word from position i on
RECURSIVE SyllableLoop(_, _, _, _)
SyllableLoop(word, i, syllable_count, previous_was_vowel) ==
    IF i > Len(word) THEN syllable_count
    ELSE LET is_vowel == word[i] \in Vowels
         IN  SyllableLoop(word, i + 1,
                          IF is_vowel /\ ~previous_was_vowel
                          THEN syllable_count + 1 ELSE syllable_count,
                          is_vowel)

\* a syllable count without the final max(1, .)
count_syllables_unclamped(w) ==
    LET word == Lower(w)
        counted == SyllableLoop(word, 1, 0, FALSE)
    IN  IF EndsWith(word, <<"e">>) THEN counted - 1 ELSE counted

count_syllables(w) ==
    LET word == Lower(w)
        counted == SyllableLoop(word, 1, 0, FALSE)
        adjusted == IF EndsWith(word, <<"e">>) THEN counted - 1 ELSE counted
    IN  IF adjusted >= 1 THEN adjusted ELSE 1

RECURSIVE SumSyllables(_)
SumSyllables(words) ==
    IF words = <<>> THEN 0
    ELSE count_syllables(Head(words)) + SumSyllables(Tail(words))

\* max(0, min(100, x))
Clamp100(x) == RMax(Int2Rat(0), RMin(Int2Rat(100), x))

\* a formula that takes the syllables per sentence instead of per word
FleschFormulaPerSentence(word_count, sentence_count, syllable_count) ==
    Rat(206835 * sentence_count - 1015 * word_count - 84600 * syllable_count,
        1000 * sentence_count)

\* 206.835 - 1.015 * (W / S) - 84.6 * (Syl / W), over the denominator 1000*S*W
FleschFormula(word_count, sentence_count, syllable_count) ==
    Rat(206835 * sentence_count * word_count
          - 1015 * word_count * word_count
          - 84600 * syllable_count * sentence_count,
        1000 * sentence_count * word_count)

\* a score that is 0 for a text without a sentence or a word
calculate_flesch_score_zero_default(t) ==
    LET sentences == split_sentences(t)
        words == Split(t)
    IN  IF sentences = <<>> \/ words = <<>> THEN Int2Rat(0)
        ELSE Clamp100(FleschFormula(Len(words), Len(sentences), SumSyllables(words)))
calculate_flesch_score(t) ==
    LET sentences == split_sentences(t)
        words == Split(t)
        word_count == Len(words)
        sentence_count == Len(sentences)
    IN  IF sentences = <<>> THEN Int2Rat(100)
        ELSE IF word_count = 0 THEN Int2Rat(100)
        ELSE IF sentence_count > 0 /\ word_count > 0
             THEN Clamp100(FleschFormula(word_count, sentence_count, SumSyllables(words)))
             ELSE Int2Rat(100)

RECURSIVE CountComplex(_)
CountComplex(words) ==
    IF words = <<>> THEN 0
    ELSE (IF count_syllables(Head(words)) >= 3 THEN 1 ELSE 0) + CountComplex(Tail(words))

count_complex_words(t) == CountComplex(FindWords(Lower(t)))

\* the literal pat stands in s at position i
LitAt(s, i, pat) == i >= 1 /\ i + Len(pat) - 1 <= Len(s) /\ SubSeq(s, i, i + Len(pat) - 1) = pat

\* the first position from i on that holds no digit (Len(s)+1 when none)
RECURSIVE SkipDigits(_, _)
SkipDigits(s, i) == IF i <= Len(s) /\ s[i] \in Digits THEN SkipDigits(s, i + 1) ELSE i

\* the first position from i on that holds no whitespace
RECURSIVE SkipSpaces(_, _)
SkipSpaces(s, i) == IF i <= Len(s) /\ s[i] \in Whitespace THEN SkipSpaces(s, i + 1) ELSE i

\* \b\w...\b for a literal token
TokenAt(s, i, pat) == LitAt(s, i, pat) /\ WordBoundary(s, i) /\ WordBoundary(s, i + Len(pat))

\* re.search(r'\b[A-Z][a-z]?\d+\b|\bH2O\b|\bCO2\b|\bO2\b', s)
HasChemicalFormula(s) ==
    \E i \in 1..Len(s) :
        \/ /\ WordBoundary(s, i)
           /\ s[i] \in UpperSet
           /\ LET j == IF i + 1 <= Len(s) /\ s[i + 1] \in LowerSet THEN i + 2 ELSE i + 1
              IN  /\ j <= Len(s)
                  /\ s[j] \in Digits
                  /\ WordBoundary(s, SkipDigits(s, j))
        \/ TokenAt(s, i, <<"H","2","O">>)
        \/ TokenAt(s, i, <<"C","O","2">>)
        \/ TokenAt(s, i, <<"O","2">>)

\* re.search of the degree pattern as the source file holds it: a digit, then
\* either optional whitespace and the two characters A^ deg, or whitespace and
\* the word degree
HasDegreeNotation(s) ==
    \E p \in 1..Len(s) :
        /\ s[p] \in Digits
        /\ \/ LitAt(s, SkipSpaces(s, p + 1), <<"A^", "deg">>)
           \/ /\ p + 1 <= Len(s)
              /\ s[p + 1] \in Whitespace
              /\ LitAt(s, SkipSpaces(s, p + 1), <<"d","e","g","r","e","e">>)

\* the members of terms (from position i on) that text_lower holds, in order
RECURSIVE TermsIn(_, _, _)
TermsIn(text_lower, terms, i) ==
    IF i > Len(terms) THEN <<>>
    ELSE (IF Contains(text_lower, terms[i]) THEN <<terms[i]>> ELSE <<>>)
            \o TermsIn(text_lower, terms, i + 1)

\* the members of terms that stand in text_lower as whole words only
RECURSIVE WholeWordTermsIn(_, _, _)
WholeWordTermsIn(text_lower, terms, i) ==
    IF i > Len(terms) THEN <<>>
    ELSE (IF \E p \in 1..Len(text_lower) : TokenAt(text_lower, p, terms[i])
          THEN <<terms[i]>> ELSE <<>>)
            \o WholeWordTermsIn(text_lower, terms, i + 1)

\* a matcher that takes the technical terms as whole words
find_technical_terms_whole_words(t) ==
    LET text_lower == Lower(t)
    IN  WholeWordTermsIn(text_lower, TECHNICAL_TERMS, 1)
          \o (IF HasChemicalFormula(t) THEN <<TagChemicalFormula>> ELSE <<>>)
          \o (IF HasDegreeNotation(t) THEN <<TagDegreeNotation>> ELSE <<>>)

find_technical_terms(t) ==
    LET text_lower == Lower(t)
    IN  TermsIn(text_lower, TECHNICAL_TERMS, 1)
          \o (IF HasChemicalFormula(t) THEN <<TagChemicalFormula>> ELSE <<>>)
          \o (IF HasDegreeNotation(t) THEN <<TagDegreeNotation>> ELSE <<>>)

RECURSIVE BannedIn(_, _)
BannedIn(text_lower, i) ==
    IF i > Len(BANNED_PHRASES) THEN <<>>
    ELSE (IF Contains(text_lower, BANNED_PHRASES[i])
          THEN <<BannedPrefix \o BANNED_PHRASES[i]>> ELSE <<>>)
            \o BannedIn(text_lower, i + 1)

\* a check that stops at the first banned phrase it finds
check_safety_first_banned(t) ==
    LET text_lower == Lower(t)
        banned == BannedIn(text_lower, 1)
    IN  (IF banned = <<>> THEN <<>> ELSE <<Head(banned)>>)
          \o (IF \E k \in 1..Len(ScaryWords) : Contains(text_lower, ScaryWords[k])
              THEN <<TagScaryContent>> ELSE <<>>)

check_safety(t) ==
    LET text_lower == Lower(t)
    IN  BannedIn(text_lower, 1)
          \o (IF \E k \in 1..Len(ScaryWords) : Contains(text_lower, ScaryWords[k])
              THEN <<TagScaryContent>> ELSE <<>>)

\* the steps with the readability bonus capped at 100 as soon as it is added
ScoreStepsCapped(sentence_count, avg_words, readability, complex_count, technical_found, safety_issues) ==
    LET s0 == Int2Rat(100)
        s1 == IF sentence_count > 2
              THEN RSub(s0, Int2Rat((sentence_count - 2) * 20)) ELSE s0
        s2 == IF RLt(Int2Rat(10), avg_words)
              THEN RSub(s1, RMin(Int2Rat(30), RMulInt(RSub(avg_words, Int2Rat(10)), 3)))
              ELSE s1
        s3 == IF RLe(Int2Rat(90), readability) THEN RMin(Int2Rat(100), RAdd(s2, Int2Rat(10)))
              ELSE IF RLt(readability, Int2Rat(80))
                   THEN RSub(s2, RMin(Int2Rat(30), RSub(Int2Rat(80), readability)))
                   ELSE s2
        s4 == RSub(s3, Int2Rat(complex_count * 5))
        s5 == RSub(s4, Int2Rat(Len(technical_found) * 15))
        s6 == RSub(s5, Int2Rat(Len(safety_issues) * 20))
    IN  s6

\* the score before the final clamp, one step per penalty in the order of the code
ScoreSteps(sentence_count, avg_words, readability, complex_count, technical_found, safety_issues) ==
    LET s0 == Int2Rat(100)
        \* sentence count penalty
        s1 == IF sentence_count > 2
              THEN RSub(s0, Int2Rat((sentence_count - 2) * 20)) ELSE s0
        \* word count penalty
        s2 == IF RLt(Int2Rat(10), avg_words)
              THEN RSub(s1, RMin(Int2Rat(30), RMulInt(RSub(avg_words, Int2Rat(10)), 3)))
              ELSE s1
        \* readability bonus or penalty
        s3 == IF RLe(Int2Rat(90), readability) THEN RAdd(s2, Int2Rat(10))
              ELSE IF RLt(readability, Int2Rat(80))
                   THEN RSub(s2, RMin(Int2Rat(30), RSub(Int2Rat(80), readability)))
                   ELSE s2
        \* complex words, technical terms, safety issues
        s4 == RSub(s3, Int2Rat(complex_count * 5))
        s5 == RSub(s4, Int2Rat(Len(technical_found) * 15))
        s6 == RSub(s5, Int2Rat(Len(safety_issues) * 20))
    IN  s6

\* a score returned without the final clamp
ScoreUnclamped(sentence_count, avg_words, readability, complex_count, technical_found, safety_issues) ==
    ScoreSteps(sentence_count, avg_words, readability, complex_count, technical_found, safety_issues)

\* a score made non-negative by abs() instead of max(0, .)
ScoreAbs(sentence_count, avg_words, readability, complex_count, technical_found, safety_issues) ==
    LET x == ScoreSteps(sentence_count, avg_words, readability, complex_count, technical_found, safety_issues)
    IN  RMin(Int2Rat(100), [n |-> Abs(x.n), d |-> x.d])

calculate_overall_score(sentence_count, avg_words, readability, complex_count, technical_found, safety_issues) ==
    Clamp100(ScoreSteps(sentence_count, avg_words, readability, complex_count, technical_found, safety_issues))

\* a gate that admits fewer than five sentences only
PassedUnderFive(sentence_count, avg_words, readability, technical_found, safety_issues) ==
    /\ sentence_count < 5
    /\ RLe(avg_words, Int2Rat(15))
    /\ RLe(Int2Rat(75), readability)
    /\ Len(technical_found) = 0
    /\ Len(safety_issues) = 0

\* a gate that does not look at the technical terms
PassedIgnoringTerms(sentence_count, avg_words, readability, technical_found, safety_issues) ==
    /\ sentence_count <= 5
    /\ RLe(avg_words, Int2Rat(15))
    /\ RLe(Int2Rat(75), readability)
    /\ Len(safety_issues) = 0

\* the pass/fail gate of evaluate, on the values before rounding
Passed(sentence_count, avg_words, readability, technical_found, safety_issues) ==
    /\ sentence_count <= 5
    /\ RLe(avg_words, Int2Rat(15))
    /\ RLe(Int2Rat(75), readability)
    /\ Len(technical_found) = 0
    /\ Len(safety_issues) = 0

\* a count of the blanks of each sentence in place of its words
WordCountsByBlanks(sentences) ==
    [i \in 1..Len(sentences) |->
        Cardinality({j \in 1..Len(sentences[i]) : sentences[i][j] \in Whitespace})]

\* [len(s.split()) for s in sentences]
WordCounts(sentences) == [i \in 1..Len(sentences) |-> Len(Split(sentences[i]))]

\* evaluate(response): the EvaluationMetrics it can return (one, but for the
\* exact ties of the three roundings)
evaluate(resp, question) ==
    LET response == Strip(resp)
        sentences == split_sentences(response)
        sentence_count == Len(sentences)
        word_counts == WordCounts(sentences)
        avg_words == IF word_counts # <<>>
                     THEN Rat(SumSeq(word_counts), Len(word_counts)) ELSE Int2Rat(0)
        max_words == IF word_counts # <<>> THEN MaxSeq(word_counts) ELSE 0
        readability == calculate_flesch_score(response)
        complex_count == count_complex_words(response)
        technical_found == find_technical_terms(response)
        safety_issues == check_safety(response)
        overall_score == calculate_overall_score(sentence_count, avg_words, readability,
                                                 complex_count, technical_found, safety_issues)
        passed == Passed(sentence_count, avg_words, readability, technical_found, safety_issues)
    IN  { [sentence_count |-> sentence_count,
           avg_words_per_sentence |-> a,
           max_words_in_sentence |-> max_words,
           readability_score |-> r,
           complex_word_count |-> complex_count,
           technical_terms_found |-> technical_found,
           safety_issues |-> safety_issues,
           overall_score |-> o,
           passed |-> passed] :
          a \in Round1(avg_words), r \in Round1(readability), o \in Round1(overall_score) }

----------------------------------------------------------------------------
(* Inputs *)

\* the longest text of the exhaustive part of the corpus
MaxLen == 4

\* the characters the exhaustive part of the corpus is written in
Alphabet == {"a", "e", "b", "E", " ", "\n", ".", "!"}

ShortTexts == UNION {[1..n -> Alphabet] : n \in 0..MaxLen}

\* n copies of the text s, each followed by sep
RECURSIVE Repeat(_, _, _)
Repeat(s, sep, n) == IF n = 0 THEN <<>> ELSE s \o sep \o Repeat(s, sep, n - 1)

\* the words from position i on, a full stop after every per-th word and after
\* the last one
RECURSIVE JoinWords(_, _, _)
JoinWords(words, i, per) ==
    IF i > Len(words) THEN <<>>
    ELSE words[i]
           \o (IF i % per = 0 \/ i = Len(words) THEN <<".">> ELSE <<>>)
           \o (IF i < Len(words) THEN <<" ">> ELSE <<>>)
           \o JoinWords(words, i + 1, per)

\* 55 words in five sentences of 11: "banana", then 20 times "aba", then 34
\* times "a"; readability 77.23, one complex word
FourPenaltyText ==
    JoinWords([i \in 1..55 |-> IF i = 1 THEN <<"b","a","n","a","n","a">>
                               ELSE IF i <= 21 THEN <<"a","b","a">> ELSE <<"a">>],
              1, 11)

\* "Why?"
WhyQuestion == <<"W","h","y","?">>

\* "banana aba. a. a. a. a": five sentences, a complex word, readability 78.7,
\* score 33.7
LowScoreText ==
    <<"b","a","n","a","n","a"," ","a","b","a","."," ","a","."," ","a","."," ","a","."," ","a">>

\* "a big atom": one technical term in an otherwise ideal response
OneTermText == <<"a"," ","b","i","g"," ","a","t","o","m">>

\* "Hi! Bye?"
HiByeText == <<"H","i","!"," ","B","y","e","?">>

\* "Cats say meow. Dogs say woof."
CatsDogsText ==
    <<"C","a","t","s"," ","s","a","y"," ","m","e","o","w","."," ",
      "D","o","g","s"," ","s","a","y"," ","w","o","o","f",".">>

SampleTexts == {
    CatsDogsText, HiByeText, LowScoreText, OneTermText,
    \* "  \n\t "
    <<" ", " ", "\n", "\t", " ">>,
    \* "One idea...  TWO\nAE!?"
    <<"O","n","e"," ","i","d","e","a",".",".","."," "," ","T","W","O","\n","A","E","!","?">>,
    \* "aba. aba. a. a. a"
    <<"a","b","a","."," ","a","b","a","."," ","a","."," ","a","."," ","a">>,
    \* "H2O is a molecule."
    <<"H","2","O"," ","i","s"," ","a"," ","m","o","l","e","c","u","l","e",".">>,
    \* "Actually, monsters die."
    <<"A","c","t","u","a","l","l","y",","," ","m","o","n","s","t","e","r","s"," ","d","i","e",".">>,
    \* "It is 90 degrees."
    <<"I","t"," ","i","s"," ","9","0"," ","d","e","g","r","e","e","s",".">>,
    \* "banana banana banana banana."
    Repeat(<<"b","a","n","a","n","a">>, <<" ">>, 3) \o <<"b","a","n","a","n","a",".">>
}

\* the most one-syllable words, two-syllable words and words per sentence of a
\* passage
MaxShortWords == 19
MaxLongWords == 17
MaxPerSentence == 8

\* a passage of short one-syllable words followed by long two-syllable words
Passage(short, long, per) ==
    JoinWords([i \in 1..(short + long) |-> IF i <= short THEN <<"a">> ELSE <<"a","b","a">>],
              1, per)

Passages == {Passage(short, long, per) :
               short \in 0..MaxShortWords, long \in 0..MaxLongWords, per \in 1..MaxPerSentence}

Corpus == ShortTexts \cup SampleTexts

NoValue == [none |-> TRUE]

\* the coroutines the event loop runs, and the sessions that ask
Tasks == {"t1", "t2"}
Sessions == {"s1", "s2"}

\* a task that stands in no function
IdleTask == [fn |-> "none", pc |-> "idle", locals |-> NoValue]

\* RateLimiter.__init__: requests is a defaultdict(list) without a key
RateLimiter(max_requests, window_minutes) ==
    [max_requests |-> max_requests,
     window |-> window_minutes,
     requests |-> [s \in {} |-> <<>>]]

\* the service after start-up: rate_limiter = RateLimiter(), nothing running,
\* nothing asked, nothing logged
ServiceStarted ==
    /\ rate_limiter = RateLimiter(30, 10)
    /\ lock = "free"
    /\ clock = 0
    /\ tasks = [t \in Tasks |-> IdleTask]
    /\ llm_calls = <<>>
    /\ log = <<>>

Init ==
    /\ text \in Corpus
    /\ op = "none"
    /\ out = NoValue
    /\ args = NoValue
    /\ batch = <<>>
    /\ report = NoValue
    /\ ServiceStarted

----------------------------------------------------------------------------
(* The operations on one text *)

Evaluate ==
    /\ op = "none"
    /\ \E m \in evaluate(text, <<>>) : out' = m
    /\ op' = "evaluate"
    /\ UNCHANGED <<text, args, batch, report>>
    /\ UNCHANGED server

SplitSentences ==
    /\ op = "none"
    /\ out' = split_sentences(text)
    /\ op' = "split_sentences"
    /\ UNCHANGED <<text, args, batch, report>>
    /\ UNCHANGED server

FleschScore ==
    /\ op = "none"
    /\ out' = calculate_flesch_score(text)
    /\ op' = "flesch_score"
    /\ UNCHANGED <<text, args, batch, report>>
    /\ UNCHANGED server

CountSyllables ==
    /\ op = "none"
    /\ out' = count_syllables(text)
    /\ op' = "count_syllables"
    /\ UNCHANGED <<text, args, batch, report>>
    /\ UNCHANGED server

Next == Evaluate \/ SplitSentences \/ FleschScore \/ CountSyllables

Spec == Init /\ [][Next]_vars

\* evaluate alone, over the corpus and the passages
InitEvaluate ==
    /\ text \in Corpus \cup Passages
    /\ op = "none"
    /\ out = NoValue
    /\ args = NoValue
    /\ batch = <<>>
    /\ report = NoValue
    /\ ServiceStarted

NextEvaluate == Evaluate

SpecEvaluate == InitEvaluate /\ [][NextEvaluate]_vars

----------------------------------------------------------------------------
(* The lexical detectors on their own *)

\* what stands before the core of a detector text
TermPrefixes == {
    \* ""
    <<>>,
    \* "x"
    <<"x">>,
    \* " "
    <<" ">>,
    \* "a "
    <<"a"," ">>,
    \* "H2O "
    <<"H","2","O"," ">>,
    \* "_"
    <<"_">>
}

\* what stands after it
TermSuffixes == {
    \* ""
    <<>>,
    \* " "
    <<" ">>,
    \* "s"
    <<"s">>,
    \* "."
    <<".">>,
    \* "2"
    <<"2">>,
    \* " is"
    <<" ","i","s">>
}

\* technical terms, formula tokens, degree notations, banned phrases and scary words,
\* in the spellings that do and do not count
TermCores == {
    \* "atom"
    <<"a","t","o","m">>,
    \* "Atom"
    <<"A","t","o","m">>,
    \* "MOLECULE"
    <<"M","O","L","E","C","U","L","E">>,
    \* "a quantum"
    <<"a"," ","q","u","a","n","t","u","m">>,
    \* "H2O"
    <<"H","2","O">>,
    \* "h2o"
    <<"h","2","o">>,
    \* "CO2"
    <<"C","O","2">>,
    \* "O2"
    <<"O","2">>,
    \* "o2"
    <<"o","2">>,
    \* "Fe2"
    <<"F","e","2">>,
    \* "Fe"
    <<"F","e">>,
    \* "C12"
    <<"C","1","2">>,
    \* "Fe2x"
    <<"F","e","2","x">>,
    \* "90°"
    <<"9","0","deg">>,
    \* "90 °"
    <<"9","0"," ","deg">>,
    \* "90Â°"
    <<"9","0","A^","deg">>,
    \* "90 \tÂ°"
    <<"9","0"," ","\t","A^","deg">>,
    \* "90 degrees"
    <<"9","0"," ","d","e","g","r","e","e","s">>,
    \* "7 degree"
    <<"7"," ","d","e","g","r","e","e">>,
    \* "90degrees"
    <<"9","0","d","e","g","r","e","e","s">>,
    \* "90\ndegrees"
    <<"9","0","\n","d","e","g","r","e","e","s">>,
    \* "90 Degrees"
    <<"9","0"," ","D","e","g","r","e","e","s">>,
    \* "degrees"
    <<"d","e","g","r","e","e","s">>,
    \* "°"
    <<"deg">>,
    \* "9"
    <<"9">>,
    \* "actually"
    <<"a","c","t","u","a","l","l","y">>,
    \* "ACTUALLY basically"
    <<"A","C","T","U","A","L","L","Y"," ","b","a","s","i","c","a","l","l","y">>,
    \* "Basically, actually, actually a MONSTER"
    <<"B","a","s","i","c","a","l","l","y",","," ","a","c","t","u","a","l","l","y",","," ","a","c","t","u","a","l","l","y"," ","a"," ","M","O","N","S","T","E","R">>,
    \* "basically, actually"
    <<"b","a","s","i","c","a","l","l","y",","," ","a","c","t","u","a","l","l","y">>,
    \* "actually actually"
    <<"a","c","t","u","a","l","l","y"," ","a","c","t","u","a","l","l","y">>,
    \* "As an AI"
    <<"A","s"," ","a","n"," ","A","I">>,
    \* "let me explain"
    <<"l","e","t"," ","m","e"," ","e","x","p","l","a","i","n">>,
    \* "die"
    <<"d","i","e">>,
    \* "Monster"
    <<"M","o","n","s","t","e","r">>,
    \* "studied"
    <<"s","t","u","d","i","e","d">>,
    \* "it hurt"
    <<"i","t"," ","h","u","r","t">>,
    \* "scary death"
    <<"s","c","a","r","y"," ","d","e","a","t","h">>
}

TermTexts == {p \o c \o s : p \in TermPrefixes, c \in TermCores, s \in TermSuffixes}

InitTerms ==
    /\ text \in TermTexts
    /\ op = "none"
    /\ out = NoValue
    /\ args = NoValue
    /\ batch = <<>>
    /\ report = NoValue
    /\ ServiceStarted

FindTechnicalTerms ==
    /\ op = "none"
    /\ out' = find_technical_terms(text)
    /\ op' = "find_technical_terms"
    /\ UNCHANGED <<text, args, batch, report>>
    /\ UNCHANGED server

CheckSafety ==
    /\ op = "none"
    /\ out' = check_safety(text)
    /\ op' = "check_safety"
    /\ UNCHANGED <<text, args, batch, report>>
    /\ UNCHANGED server

NextTerms == Evaluate \/ FindTechnicalTerms \/ CheckSafety

SpecTerms == InitTerms /\ [][NextTerms]_vars

----------------------------------------------------------------------------
(* _calculate_overall_score on its own *)

\* the largest counts handed to _calculate_overall_score
MaxSentenceCount == 7
MaxComplexCount == 3
MaxTechnical == 2
MaxIssues == 2

\* average words per sentence, in halves: below, at and above the thresholds
\* 10 (penalty starts) and 20 (penalty capped)
AvgWordsValues == {Rat(k, 2) : k \in {0, 19, 20, 21, 25, 30, 39, 40, 41, 60}}

\* readability, in tenths: around 50 (penalty capped), 80 and 90
ReadabilityValues == {Rat(k, 10) : k \in {0, 499, 500, 501, 650, 799, 800, 801, 899, 900, 1000}}

ScoreInputs ==
    [sentence_count : 0..MaxSentenceCount,
     avg_words : AvgWordsValues,
     readability : ReadabilityValues,
     complex_count : 0..MaxComplexCount,
     technical_found : {SubSeq(TECHNICAL_TERMS, 1, k) : k \in 0..MaxTechnical},
     safety_issues : {[i \in 1..k |-> TagScaryContent] : k \in 0..MaxIssues}]

\* the score of an argument record
ScoreOf(a) ==
    calculate_overall_score(a.sentence_count, a.avg_words, a.readability,
                            a.complex_count, a.technical_found, a.safety_issues)

InitScore ==
    /\ text = <<>>
    /\ op = "none"
    /\ out = NoValue
    /\ args \in ScoreInputs
    /\ batch = <<>>
    /\ report = NoValue
    /\ ServiceStarted

OverallScore ==
    /\ op = "none"
    /\ args # NoValue
    /\ out' = ScoreOf(args)
    /\ op' = "overall_score"
    /\ UNCHANGED <<text, args, batch, report>>
    /\ UNCHANGED server

NextScore == OverallScore

SpecScore == InitScore /\ [][NextScore]_vars

----------------------------------------------------------------------------
(* evaluate_batch *)

\* the sum of a sequence of rationals
RECURSIVE RSum(_)
RSum(xs) == IF xs = <<>> THEN Int2Rat(0) ELSE RAdd(Head(xs), RSum(Tail(xs)))

\* sum(1 for r in results if r['metrics'].passed)
RECURSIVE PassedCount(_)
PassedCount(results) ==
    IF results = <<>> THEN 0
    ELSE (IF Head(results).metrics.passed THEN 1 ELSE 0) + PassedCount(Tail(results))

\* the result lists the loop of evaluate_batch can build (one, but for the exact
\* ties of evaluate's roundings)
RECURSIVE BatchResults(_)
BatchResults(responses) ==
    IF responses = <<>> THEN {<<>>}
    ELSE LET n == Len(responses)
             question == responses[n][1]
             response == responses[n][2]
         IN  {Append(results, [question |-> question, response |-> response, metrics |-> m]) :
                results \in BatchResults(SubSeq(responses, 1, n - 1)),
                m \in evaluate(response, question)}

\* a summary whose pass_rate is the fraction passed, not the percentage
BatchSummaryFraction(results) ==
    LET passed_count == PassedCount(results)
        avg_score == Rat(RSum([i \in 1..Len(results) |-> results[i].metrics.overall_score]).n,
                         RSum([i \in 1..Len(results) |-> results[i].metrics.overall_score]).d
                           * Len(results))
    IN  {[total |-> Len(results), passed |-> passed_count, pass_rate |-> p, avg_score |-> a] :
           p \in Round1(Rat(passed_count, Len(results))), a \in Round1(avg_score)}

\* the summaries evaluate_batch can compute for a non-empty result list
BatchSummary(results) ==
    LET passed_count == PassedCount(results)
        total_score == RSum([i \in 1..Len(results) |-> results[i].metrics.overall_score])
        avg_score == Rat(total_score.n, total_score.d * Len(results))
    IN  {[total |-> Len(results), passed |-> passed_count, pass_rate |-> p, avg_score |-> a] :
           p \in Round1(Rat(passed_count * 100, Len(results))), a \in Round1(avg_score)}

\* evaluate_batch(responses): what it can return; statistics.mean raises
\* StatisticsError on the empty result list
evaluate_batch(responses) ==
    IF responses = <<>>
    THEN {[raised |-> TRUE, error |-> "StatisticsError"]}
    ELSE UNION {{[raised |-> FALSE, results |-> results, summary |-> summary] :
                   summary \in BatchSummary(results)} :
                results \in BatchResults(responses)}

\* the longest batch
MaxBatch == 3

BatchPairs ==
    {<<q, r>> : q \in {<<>>, WhyQuestion}, r \in {FourPenaltyText, OneTermText}}
      \cup {<<WhyQuestion, HiByeText>>, <<<<>>, CatsDogsText>>}

InitBatch ==
    /\ text = <<>>
    /\ op = "none"
    /\ out = NoValue
    /\ args = NoValue
    /\ batch = <<>>
    /\ report = NoValue
    /\ ServiceStarted

\* the caller puts one more pair on the list
AddPair ==
    /\ op = "none"
    /\ Len(batch) < MaxBatch
    /\ \E pair \in BatchPairs : batch' = Append(batch, pair)
    /\ UNCHANGED <<text, op, out, args, report>>
    /\ UNCHANGED server

EvaluateBatch ==
    /\ op = "none"
    /\ \E r \in evaluate_batch(batch) : report' = r
    /\ op' = "evaluate_batch"
    /\ UNCHANGED <<text, out, args, batch>>
    /\ UNCHANGED server

NextBatch == AddPair \/ EvaluateBatch

SpecBatch == InitBatch /\ [][NextBatch]_vars


----------------------------------------------------------------------------
(* The lexicon of the rewrite and cleanup functions *)

\* TECHNICAL_BANLIST is a Python set of strings: it has no order of its own
TECHNICAL_BANLIST == {
    <<"i","n","t","e","r","s","e","c","t">>,
    <<"i","n","t","e","r","s","e","c","t","i","o","n">>,
    <<"a","t","m","o","s","p","h","e","r","e">>,
    <<"a","t","m","o","s","p","h","e","r","i","c">>,
    <<"h","y","d","r","i","d","e","s">>,
    <<"h","y","d","r","i","d","e">>,
    <<"c","o","m","p","o","u","n","d">>,
    <<"c","o","m","p","o","u","n","d","s">>,
    <<"m","o","l","e","c","u","l","e">>,
    <<"m","o","l","e","c","u","l","e","s">>,
    <<"m","o","l","e","c","u","l","a","r">>,
    <<"r","e","a","c","t">>,
    <<"r","e","a","c","t","i","o","n">>,
    <<"r","e","a","c","t","i","o","n","s">>,
    <<"a","p","p","r","o","x","i","m","a","t","e">>,
    <<"a","p","p","r","o","x","i","m","a","t","e","l","y">>,
    <<"r","a","d","i","u","s">>,
    <<"q","u","a","n","t","u","m">>,
    <<"a","l","g","o","r","i","t","h","m">>,
    <<"m","e","t","h","a","n","e">>,
    <<"h","y","d","r","o","g","e","n">>,
    <<"o","x","y","g","e","n">>,
    <<"e","l","e","m","e","n","t">>,
    <<"e","l","e","m","e","n","t","s">>,
    <<"c","h","e","m","i","c","a","l">>,
    <<"c","h","e","m","i","s","t","r","y">>,
    <<"f","o","r","m","u","l","a">>,
    <<"f","o","r","m","u","l","a","s">>,
    <<"v","i","s","c","o","s","i","t","y">>,
    <<"f","r","e","q","u","e","n","c","y">>,
    <<"f","r","e","q","u","e","n","c","i","e","s">>,
    <<"l","a","r","y","n","g","e","a","l">>,
    <<"v","i","b","r","a","t","i","o","n">>,
    <<"v","i","b","r","a","t","i","o","n","s">>,
    <<"e","l","e","c","t","r","o","m","a","g","n","e","t","i","c">>,
    <<"s","p","e","c","t","r","u","m">>,
    <<"w","a","v","e","l","e","n","g","t","h">>,
    <<"p","a","r","t","i","c","l","e","s">>,
    <<"e","l","e","c","t","r","o","n","s">>,
    <<"p","h","o","t","o","s","y","n","t","h","e","s","i","s">>,
    <<"s","y","n","t","h","e","s","i","s">>,
    <<"s","y","n","t","h","e","s","i","z","e">>,
    <<"d","e","g","r","e","e","s">>,
    <<"a","n","g","l","e">>,
    <<"a","n","g","l","e","s">>,
    <<"c","o","e","f","f","i","c","i","e","n","t">>,
    <<"d","e","n","s","i","t","y">>,
    <<"m","a","s","s">>,
    <<"v","e","l","o","c","i","t","y">>,
    <<"a","c","c","e","l","e","r","a","t","i","o","n">>,
    <<"c","h","4">>,
    <<"h","2","o">>,
    <<"c","o","2">>,
    <<"o","2">>,
    <<"h","2">>,
    <<"c","h","3">>,
    <<"n","h","3">>
}

FILLER_PHRASES == <<
    <<"g","o","o","d"," ","t","h","i","n","k","i","n","g">>,
    <<"g","r","e","a","t"," ","q","u","e","s","t","i","o","n">>,
    <<"i"," ","c","a","n"," ","p","r","o","v","i","d","e">>,
    <<"i"," ","c","a","n"," ","e","x","p","l","a","i","n">>,
    <<"a","s"," ","a","n"," ","a","i">>,
    <<"t","h","e","r","e"," ","a","r","e"," ","t","h","r","e","e"," ","t","y","p","e","s">>,
    <<"t","h","e","r","e"," ","a","r","e"," ","s","e","v","e","r","a","l"," ","t","y","p","e","s">>,
    <<"l","e","t"," ","m","e"," ","e","x","p","l","a","i","n">>,
    <<"t","h","e"," ","a","n","s","w","e","r"," ","i","s">>,
    <<"a","c","t","u","a","l","l","y">>,
    <<"b","a","s","i","c","a","l","l","y">>,
    <<"e","s","s","e","n","t","i","a","l","l","y">>,
    <<"f","u","r","t","h","e","r","m","o","r","e">>,
    <<"h","o","w","e","v","e","r">>,
    <<"t","h","e","r","e","f","o","r","e">>,
    <<"i","n"," ","f","a","c","t">>,
    <<"w","a","n","t"," ","m","o","r","e","?">>,
    <<"w","o","u","l","d"," ","y","o","u"," ","l","i","k","e"," ","t","o"," ","k","n","o","w"," ","m","o","r","e">>
>>

\* the list egregious_fillers of clean_response
egregious_fillers == <<
    <<"g","o","o","d"," ","t","h","i","n","k","i","n","g">>,
    <<"g","r","e","a","t"," ","q","u","e","s","t","i","o","n">>,
    <<"b","o","a"," ","p","e","r","g","u","n","t","a">>,
    <<"a","s"," ","a","n"," ","a","i">>,
    <<"l","e","t"," ","m","e"," ","e","x","p","l","a","i","n">>,
    <<"a","c","t","u","a","l","l","y",",">>,
    <<"b","a","s","i","c","a","l","l","y",",">>,
    <<"t","h","e","r","e"," ","a","r","e"," ","t","h","r","e","e"," ","t","y","p","e","s">>,
    <<"t","h","e","r","e"," ","a","r","e"," ","s","e","v","e","r","a","l"," ","t","y","p","e","s">>
>>

WantMore == <<"w","a","n","t"," ","m","o","r","e">>
WantToKnowMore == <<"w","a","n","t"," ","t","o"," ","k","n","o","w"," ","m","o","r","e">>

MsgTooManySentences == <<"T","o","o"," ","m","a","n","y"," ","s","e","n","t","e","n","c","e","s",":"," ">>
MsgOverEight == <<" ",">"," ","8">>
MsgChemicalFormula == <<"C","o","n","t","a","i","n","s"," ","c","h","e","m","i","c","a","l"," ","f","o","r","m","u","l","a">>
MsgDegreeNotation == <<"C","o","n","t","a","i","n","s"," ","d","e","g","r","e","e"," ","n","o","t","a","t","i","o","n">>
MsgBannedWords == <<"C","o","n","t","a","i","n","s"," ","b","a","n","n","e","d"," ","w","o","r","d","s",":"," ">>
MsgSentencesTooLong == <<"S","e","n","t","e","n","c","e","s"," ","t","o","o"," ","l","o","n","g",":"," ","a","v","g"," ">>
MsgWords == <<" ","w","o","r","d","s">>
MsgFiller == <<"C","o","n","t","a","i","n","s"," ","f","i","l","l","e","r",":"," ","'">>
MsgWantMore ==
    <<"C","o","n","t","a","i","n","s"," ","'","W","a","n","t"," ","m","o","r","e","?","'"," ","(","U","I"," ","h","a","n","d","l","e","s"," ","t","h","i","s",")">>

----------------------------------------------------------------------------
(* needs_rewrite *)

DigitChars == <<"0","1","2","3","4","5","6","7","8","9">>

\* str(k) of a natural number
RECURSIVE Decimal(_)
Decimal(k) ==
    IF k < 10 THEN <<DigitChars[k + 1]>>
    ELSE Decimal(k \div 10) \o <<DigitChars[(k % 10) + 1]>>

\* the text of a non-negative multiple of one tenth, one decimal
FormatTenths(r) ==
    LET tenths == r.n * (10 \div r.d)
    IN  Decimal(tenths \div 10) \o <<".">> \o <<DigitChars[(tenths % 10) + 1]>>

\* f"{x:.1f}": x rounded to one decimal and written out (both neighbours of an
\* exact tie, as for round)
FormatOneDecimal(x) == {FormatTenths(r) : r \in Round1(x)}

\* ', '.join(words)
RECURSIVE JoinComma(_)
JoinComma(words) ==
    IF words = <<>> THEN <<>>
    ELSE IF Len(words) = 1 THEN words[1]
    ELSE words[1] \o <<",", " ">> \o JoinComma(Tail(words))

\* the lists of k different members of the set S: what the first k of a list
\* built by iterating over S can be
FirstOfSet(S, k) == {f \in [1..k -> S] : \A i, j \in 1..k : f[i] = f[j] => i = j}

\* re.search(r'\b[A-Z][a-z]?\d+\b|\b[A-Z]{2,}\d*\b', s)
HasFormulaOrCapitals(s) ==
    \E i \in 1..Len(s) :
        /\ WordBoundary(s, i)
        /\ s[i] \in UpperSet
        /\ \/ LET j == IF i + 1 <= Len(s) /\ s[i + 1] \in LowerSet THEN i + 2 ELSE i + 1
              IN  /\ j <= Len(s)
                  /\ s[j] \in Digits
                  /\ WordBoundary(s, SkipDigits(s, j))
           \/ \E j \in (i + 1)..Len(s) :
                 /\ \A k \in i..j : s[k] \in UpperSet
                 /\ WordBoundary(s, SkipDigits(s, j + 1))

\* re.search(r'\d+\s*(degree sign)|degrees?', s, re.IGNORECASE)
HasDegreeSignOrWord(s) ==
    \/ \E p \in 1..Len(s) : s[p] \in Digits /\ LitAt(s, SkipSpaces(s, p + 1), <<"deg">>)
    \/ Contains(Lower(s), <<"d","e","g","r","e","e">>)

\* a threshold that already counts eight sentences as too many
TooManySentencesFromEight(count) == count >= 8

\* len(sentences) > 8
TooManySentences(count) == count > 8

\* a filler check that goes on after its first match
RECURSIVE FillerIssuesNoBreak(_, _)
FillerIssuesNoBreak(text_lower, i) ==
    IF i > Len(FILLER_PHRASES) THEN <<>>
    ELSE (IF Contains(text_lower, FILLER_PHRASES[i])
          THEN <<MsgFiller \o FILLER_PHRASES[i] \o <<"'">>>> ELSE <<>>)
            \o FillerIssuesNoBreak(text_lower, i + 1)

\* the loop over FILLER_PHRASES from position i on, left at the first match
RECURSIVE FillerIssues(_, _)
FillerIssues(text_lower, i) ==
    IF i > Len(FILLER_PHRASES) THEN <<>>
    ELSE IF Contains(text_lower, FILLER_PHRASES[i])
         THEN <<MsgFiller \o FILLER_PHRASES[i] \o <<"'">>>>
         ELSE FillerIssues(text_lower, i + 1)

\* needs_rewrite(text): the pairs (flag, issues) it can return (one, but for
\* the iteration order of the banlist and an exact tie of the average)
needs_rewrite(t) ==
    LET sentences == split_sentences(Strip(t))
        count == Len(sentences)
        text_lower == Lower(t)
        found_banned == {word \in TECHNICAL_BANLIST : Contains(text_lower, word)}
        shown == IF Cardinality(found_banned) < 3 THEN Cardinality(found_banned) ELSE 3
        avg_words == IF count > 0 THEN Rat(SumSeq(WordCounts(sentences)), count)
                     ELSE Int2Rat(0)
        check1 == IF TooManySentences(count)
                  THEN <<MsgTooManySentences \o Decimal(count) \o MsgOverEight>> ELSE <<>>
        check2 == (IF HasFormulaOrCapitals(t) THEN <<MsgChemicalFormula>> ELSE <<>>)
                    \o (IF HasDegreeSignOrWord(t) THEN <<MsgDegreeNotation>> ELSE <<>>)
        check3(first) == IF found_banned # {}
                         THEN <<MsgBannedWords \o JoinComma(first)>> ELSE <<>>
        check4(avg) == IF count > 0 /\ RLt(Int2Rat(12), avg_words)
                       THEN <<MsgSentencesTooLong \o avg \o MsgWords>> ELSE <<>>
        check5 == FillerIssues(text_lower, 1)
        check6 == IF Contains(text_lower, WantMore) \/ Contains(text_lower, WantToKnowMore)
                  THEN <<MsgWantMore>> ELSE <<>>
        issues(first, avg) == check1 \o check2 \o check3(first) \o check4(avg)
                                \o check5 \o check6
    IN  {[flag |-> Len(issues(first, avg)) > 0, issues |-> issues(first, avg)] :
           first \in FirstOfSet(found_banned, shown), avg \in FormatOneDecimal(avg_words)}

----------------------------------------------------------------------------
(* clean_response *)

\* where the match of (filler)[.!?]?\s* that starts at position i of s ends:
\* the first position after it
FillerEnd(s, i, filler) ==
    LET e == i + Len(filler)
        afterTerminator == IF e <= Len(s) /\ s[e] \in Terminators THEN e + 1 ELSE e
    IN  SkipSpaces(s, afterTerminator)

\* the matches <<first, end>> that re.sub finds from position from on, left to
\* right and not overlapping; folded is the text the phrase is looked up in
RECURSIVE FillerMatches(_, _, _, _)
FillerMatches(s, folded, filler, from) ==
    LET found == {i \in from..Len(s) : LitAt(folded, i, filler)}
    IN  IF found = {} THEN {}
        ELSE LET i == CHOOSE x \in found : \A y \in found : x <= y
                 e == FillerEnd(s, i, filler)
             IN  {<<i, e>>} \cup FillerMatches(s, folded, filler, e)

\* s without the characters of the matches
Delete(s, matches) ==
    LET keep == [i \in 1..Len(s) |-> ~\E m \in matches : m[1] <= i /\ i < m[2]]
        kept == Positions(keep, 1, Len(s))
    IN  [k \in 1..Len(kept) |-> s[kept[k]]]

\* a removal that takes the phrase in the spelling of the list only
re_sub_filler_case_sensitive(s, filler) == Delete(s, FillerMatches(s, s, filler, 1))

\* re.sub(re.escape(filler) + r'[.!?]?\s*', '', s, flags=re.IGNORECASE)
re_sub_filler(s, filler) == Delete(s, FillerMatches(s, Lower(s), filler, 1))

\* the loop over egregious_fillers from position i on
RECURSIVE RemoveFillers(_, _)
RemoveFillers(s, i) ==
    IF i > Len(egregious_fillers) THEN s
    ELSE RemoveFillers(re_sub_filler(s, egregious_fillers[i]), i + 1)

\* where the match of Want\s+(to\s+know\s+)?more\??\.? that starts at position i
\* of s ends (the first position after it), 0 when there is none
WantMoreEnd(s, folded, i) ==
    LET afterWant == SkipSpaces(s, i + 4)
        afterTo == SkipSpaces(s, afterWant + 2)
        afterKnow == SkipSpaces(s, afterTo + 4)
        group == /\ LitAt(folded, afterWant, <<"t","o">>)
                 /\ afterTo > afterWant + 2
                 /\ LitAt(folded, afterTo, <<"k","n","o","w">>)
                 /\ afterKnow > afterTo + 4
                 /\ LitAt(folded, afterKnow, <<"m","o","r","e">>)
        more == IF group THEN afterKnow ELSE afterWant
        afterMore == more + 4
        afterMark == IF afterMore <= Len(s) /\ s[afterMore] = "?"
                     THEN afterMore + 1 ELSE afterMore
    IN  IF /\ LitAt(folded, i, <<"w","a","n","t">>)
           /\ afterWant > i + 4
           /\ LitAt(folded, more, <<"m","o","r","e">>)
        THEN IF afterMark <= Len(s) /\ s[afterMark] = "." THEN afterMark + 1 ELSE afterMark
        ELSE 0

RECURSIVE WantMoreMatches(_, _, _)
WantMoreMatches(s, folded, from) ==
    LET found == {i \in from..Len(s) : WantMoreEnd(s, folded, i) # 0}
    IN  IF found = {} THEN {}
        ELSE LET i == CHOOSE x \in found : \A y \in found : x <= y
                 e == WantMoreEnd(s, folded, i)
             IN  {<<i, e>>} \cup WantMoreMatches(s, folded, e)

\* re.sub(r'Want\s+(to\s+know\s+)?more\??\.?', '', s, flags=re.IGNORECASE)
re_sub_want_more(s) == Delete(s, WantMoreMatches(s, Lower(s), 1))

Blanks == {" ", "\t"}

\* re.sub(r'[ \t]+', ' ', s)
CollapseBlanks(s) ==
    LET keep == [i \in 1..Len(s) |-> ~(s[i] \in Blanks /\ i > 1 /\ s[i - 1] \in Blanks)]
        kept == Positions(keep, 1, Len(s))
    IN  [k \in 1..Len(kept) |-> IF s[kept[k]] \in Blanks THEN " " ELSE s[kept[k]]]

\* a pattern that takes a leading comma only
StripLeadingComma(s) ==
    LET mark == SkipSpaces(s, 1)
    IN  IF mark <= Len(s) /\ s[mark] = ","
        THEN SubSeq(s, SkipSpaces(s, mark + 1), Len(s))
        ELSE s
\* re.sub(r'^\s*[,.]\s*', '', s)
StripLeadingPunctuation(s) ==
    LET mark == SkipSpaces(s, 1)
    IN  IF mark <= Len(s) /\ s[mark] \in {",", "."}
        THEN SubSeq(s, SkipSpaces(s, mark + 1), Len(s))
        ELSE s

clean_response(t) ==
    Strip(StripLeadingPunctuation(CollapseBlanks(re_sub_want_more(RemoveFillers(t, 1)))))

----------------------------------------------------------------------------
(* truncate_to_two_sentences and enforce_kid_safety *)

\* a loop that appends the pieces trimmed
RECURSIVE TruncateLoopTrimmed(_, _, _, _)
TruncateLoopTrimmed(pieces, runs, k, sentence_count) ==
    IF k > Len(pieces) \/ sentence_count >= 2 THEN <<>>
    ELSE IF Strip(pieces[k]) # <<>>
         THEN Strip(pieces[k]) \o (IF k <= Len(runs) THEN runs[k] ELSE <<>>)
                \o TruncateLoopTrimmed(pieces, runs, k + 1, sentence_count + 1)
         ELSE TruncateLoopTrimmed(pieces, runs, k + 1, sentence_count)

\* the loop of truncate_to_two_sentences from the k-th piece on: pieces[k] is
\* sentences[2k-2] and runs[k] is sentences[2k-1] of the capturing split
RECURSIVE TruncateLoop(_, _, _, _)
TruncateLoop(pieces, runs, k, sentence_count) ==
    IF k > Len(pieces) \/ sentence_count >= 2 THEN <<>>
    ELSE IF Strip(pieces[k]) # <<>>
         THEN pieces[k] \o (IF k <= Len(runs) THEN runs[k] ELSE <<>>)
                \o TruncateLoop(pieces, runs, k + 1, sentence_count + 1)
         ELSE TruncateLoop(pieces, runs, k + 1, sentence_count)

\* a truncation that trims every sentence it keeps
truncate_to_two_sentences_trimmed(t) ==
    LET s == Strip(t)
        runs == Runs(s, [i \in 1..Len(s) |-> s[i] \in Terminators])
    IN  Strip(TruncateLoopTrimmed(ReSplitTerminators(s), runs, 1, 0))

truncate_to_two_sentences(t) ==
    LET s == Strip(t)
        runs == Runs(s, [i \in 1..Len(s) |-> s[i] \in Terminators])
    IN  Strip(TruncateLoop(ReSplitTerminators(s), runs, 1, 0))

\* a cleanup that also truncates to two sentences
enforce_kid_safety_truncating(t) ==
    IF t = <<>> THEN [cleaned_text |-> t, was_modified |-> FALSE]
    ELSE LET cleaned == truncate_to_two_sentences(clean_response(t))
         IN  [cleaned_text |-> cleaned, was_modified |-> t # cleaned]

\* enforce_kid_safety(text): the pair (cleaned_text, was_modified)
enforce_kid_safety(t) ==
    IF t = <<>> THEN [cleaned_text |-> t, was_modified |-> FALSE]
    ELSE LET cleaned == clean_response(t)
         IN  [cleaned_text |-> cleaned, was_modified |-> t # cleaned]

----------------------------------------------------------------------------
(* detect_language *)

pt_pt_markers == <<
    <<"t","u">>,
    <<"t","o","r","n","e","i","r","a">>,
    <<"a","u","t","o","c","a","r","r","o">>,
    <<"c","o","m","b","o","i","o">>,
    <<"m","i","u'","d","o">>
>>

\* a variant check that looks for the markers in the text as it is spelt
detect_language_case_sensitive(t, identified) ==
    IF identified.raised THEN "en"
    ELSE IF identified.lang = "pt"
         THEN IF \E k \in 1..Len(pt_pt_markers) : Contains(t, pt_pt_markers[k])
              THEN "pt-PT" ELSE "pt"
         ELSE identified.lang

\* detect_language(text), identified being what langdetect.detect did: the tag
\* it returned, or that it raised
detect_language(t, identified) ==
    IF identified.raised THEN "en"
    ELSE IF identified.lang = "pt"
         THEN IF \E k \in 1..Len(pt_pt_markers) : Contains(Lower(t), pt_pt_markers[k])
              THEN "pt-PT" ELSE "pt"
         ELSE identified.lang

----------------------------------------------------------------------------
(* format_for_language *)

\* pt_pt_replacements, a dict: its items come in the order they are written in
pt_pt_replacements == <<
    \* 'você': 'tu'
    <<<<"v","o","c","e^">>,
      <<"t","u">>>>,
    \* 'vocês': 'vocês'
    <<<<"v","o","c","e^","s">>,
      <<"v","o","c","e^","s">>>>,
    \* 'banheiro': 'casa de banho'
    <<<<"b","a","n","h","e","i","r","o">>,
      <<"c","a","s","a"," ","d","e"," ","b","a","n","h","o">>>>,
    \* 'trem': 'comboio'
    <<<<"t","r","e","m">>,
      <<"c","o","m","b","o","i","o">>>>,
    \* 'ônibus': 'autocarro'
    <<<<"o^","n","i","b","u","s">>,
      <<"a","u","t","o","c","a","r","r","o">>>>,
    \* 'sorvete': 'gelado'
    <<<<"s","o","r","v","e","t","e">>,
      <<"g","e","l","a","d","o">>>>,
    \* 'criança': 'miúdo'
    <<<<"c","r","i","a","n","c,","a">>,
      <<"m","i","u'","d","o">>>>,
    \* 'crianças': 'miúdos'
    <<<<"c","r","i","a","n","c,","a","s">>,
      <<"m","i","u'","d","o","s">>>>
>>

\* a substitution that takes the word wherever its letters stand
RECURSIVE re_sub_word_anywhere(_, _, _, _, _)
re_sub_word_anywhere(s, folded, br_word, pt_word, from) ==
    LET found == {i \in from..Len(s) : LitAt(folded, i, br_word)}
    IN  IF found = {} THEN SubSeq(s, from, Len(s))
        ELSE LET i == CHOOSE x \in found : \A y \in found : x <= y
             IN  SubSeq(s, from, i - 1) \o pt_word
                   \o re_sub_word_anywhere(s, folded, br_word, pt_word, i + Len(br_word))

\* re.sub(r'\b' + br_word + r'\b', pt_word, s, flags=re.IGNORECASE) from
\* position from on: the matches are taken left to right, folded is the text
\* the word is looked up in
RECURSIVE re_sub_word(_, _, _, _, _)
re_sub_word(s, folded, br_word, pt_word, from) ==
    LET found == {i \in from..Len(s) : TokenAt(folded, i, br_word)}
    IN  IF found = {} THEN SubSeq(s, from, Len(s))
        ELSE LET i == CHOOSE x \in found : \A y \in found : x <= y
             IN  SubSeq(s, from, i - 1) \o pt_word
                   \o re_sub_word(s, folded, br_word, pt_word, i + Len(br_word))

\* the loop over pt_pt_replacements.items() from entry k on
RECURSIVE ApplyReplacements(_, _)
ApplyReplacements(result, k) ==
    IF k > Len(pt_pt_replacements) THEN result
    ELSE ApplyReplacements(re_sub_word(result, Lower(result), pt_pt_replacements[k][1],
                                       pt_pt_replacements[k][2], 1),
                           k + 1)

\* format_for_language(text, language)
format_for_language(t, language) ==
    IF language = "pt-PT" THEN ApplyReplacements(t, 1) ELSE t

----------------------------------------------------------------------------
(* The rewrite and cleanup functions on their own *)

\* the longest text of the exhaustive part of the cleanup corpus
MaxKidLen == 4

KidAlphabet == {"a", " ", "\n", ".", "!", ","}

ShortKidTexts == UNION {[1..n -> KidAlphabet] : n \in 0..MaxKidLen}

\* what stands before the filler of a filler text
KidPrefixes == {
    \* ""
    <<>>,
    \* "A. "
    <<"A","."," ">>,
    \* "A.\n"
    <<"A",".","\n">>,
    \* ", "
    <<","," ">>,
    \* " \n"
    <<" ","\n">>
}

\* filler phrases in several spellings, the want-more pattern, a filler of FILLER_PHRASES
\* that clean_response leaves alone, and fillers that a removal brings together
KidFillers == {
    \* "Good thinking"
    <<"G","o","o","d"," ","t","h","i","n","k","i","n","g">>,
    \* "GREAT QUESTION"
    <<"G","R","E","A","T"," ","Q","U","E","S","T","I","O","N">>,
    \* "Boa pergunta"
    <<"B","o","a"," ","p","e","r","g","u","n","t","a">>,
    \* "As an AI"
    <<"A","s"," ","a","n"," ","A","I">>,
    \* "Let me explain"
    <<"L","e","t"," ","m","e"," ","e","x","p","l","a","i","n">>,
    \* "Actually,"
    <<"A","c","t","u","a","l","l","y",",">>,
    \* "basically"
    <<"b","a","s","i","c","a","l","l","y">>,
    \* "There are three types"
    <<"T","h","e","r","e"," ","a","r","e"," ","t","h","r","e","e"," ","t","y","p","e","s">>,
    \* "there are several types"
    <<"t","h","e","r","e"," ","a","r","e"," ","s","e","v","e","r","a","l"," ","t","y","p","e","s">>,
    \* "Want more"
    <<"W","a","n","t"," ","m","o","r","e">>,
    \* "want  to know\nmore"
    <<"w","a","n","t"," "," ","t","o"," ","k","n","o","w","\n","m","o","r","e">>,
    \* "however"
    <<"h","o","w","e","v","e","r">>,
    \* "great quesgood thinkingtion"
    <<"g","r","e","a","t"," ","q","u","e","s","g","o","o","d"," ","t","h","i","n","k","i","n","g","t","i","o","n">>,
    \* "good good thinking thinking"
    <<"g","o","o","d"," ","g","o","o","d"," ","t","h","i","n","k","i","n","g"," ","t","h","i","n","k","i","n","g">>
}

\* what follows the filler: terminators and whitespace
KidAfters == {
    \* ""
    <<>>,
    \* "!"
    <<"!">>,
    \* "!?"
    <<"!","?">>,
    \* "! "
    <<"!"," ">>,
    \* "!\n"
    <<"!","\n">>,
    \* ".\t "
    <<".","\t"," ">>,
    \* " "
    <<" ">>,
    \* "?."
    <<"?",".">>
}

\* the remainder of the text
KidRests == {
    \* ""
    <<>>,
    \* "The sky is blue."
    <<"T","h","e"," ","s","k","y"," ","i","s"," ","b","l","u","e",".">>,
    \* "B.\nC. D"
    <<"B",".","\n","C","."," ","D">>,
    \* ", so"
    <<","," ","s","o">>,
    \* "Basically, molecules react at 90°"
    <<"B","a","s","i","c","a","l","l","y",","," ","m","o","l","e","c","u","l","e","s"," ","r","e","a","c","t"," ","a","t"," ","9","0","deg">>
}

FillerTexts ==
    {p \o f \o a \o r : p \in KidPrefixes, f \in KidFillers, a \in KidAfters, r \in KidRests}

\* the most sentences of a sentence text
MaxSentences == 10

\* "a a a a a a a a a a a a a.": thirteen words
ThirteenWords == Repeat(<<"a">>, <<" ">>, 12) \o <<"a", ".">>

KidSentences == {<<"a", ".">>, <<"a", " ", "b", "!">>, ThirteenWords}

\* "CO2 90(degree sign) molecules actually want more basically ": a trigger of
\* every check but the two on the sentences
EveryTrigger ==
    <<"C","O","2"," ","9","0","deg"," ","m","o","l","e","c","u","l","e","s"," ","a","c","t","u","a","l","l","y"," ","w","a","n","t"," ","m","o","r","e"," ","b","a","s","i","c","a","l","l","y"," ">>

SentenceTexts ==
    {p \o Repeat(s, <<" ">>, n) : p \in {<<>>, EveryTrigger}, s \in KidSentences,
                                  n \in 0..MaxSentences}

KidTexts == ShortKidTexts \cup FillerTexts \cup SentenceTexts

InitKid ==
    /\ text \in KidTexts
    /\ op = "none"
    /\ out = NoValue
    /\ args = NoValue
    /\ batch = <<>>
    /\ report = NoValue
    /\ ServiceStarted

NeedsRewrite ==
    /\ op = "none"
    /\ \E r \in needs_rewrite(text) : out' = r
    /\ op' = "needs_rewrite"
    /\ UNCHANGED <<text, args, batch, report>>
    /\ UNCHANGED server

CleanResponse ==
    /\ op = "none"
    /\ out' = clean_response(text)
    /\ op' = "clean_response"
    /\ UNCHANGED <<text, args, batch, report>>
    /\ UNCHANGED server

TruncateToTwoSentences ==
    /\ op = "none"
    /\ out' = truncate_to_two_sentences(text)
    /\ op' = "truncate_to_two_sentences"
    /\ UNCHANGED <<text, args, batch, report>>
    /\ UNCHANGED server

EnforceKidSafety ==
    /\ op = "none"
    /\ out' = enforce_kid_safety(text)
    /\ op' = "enforce_kid_safety"
    /\ UNCHANGED <<text, args, batch, report>>
    /\ UNCHANGED server

NextKid == NeedsRewrite \/ CleanResponse \/ TruncateToTwoSentences \/ EnforceKidSafety

SpecKid == InitKid /\ [][NextKid]_vars

----------------------------------------------------------------------------
(* detect_language with the language identifier as an oracle *)

\* what stands before the core of a language text
LanguagePrefixes == {
    \* ""
    <<>>,
    \* "Isto "
    <<"I","s","t","o"," ">>,
    \* "x"
    <<"x">>
}

\* the markers in several spellings, and texts without one
LanguageCores == {
    \* "tu"
    <<"t","u">>,
    \* "Tu"
    <<"T","u">>,
    \* "TU"
    <<"T","U">>,
    \* "tudo"
    <<"t","u","d","o">>,
    \* "torneira"
    <<"t","o","r","n","e","i","r","a">>,
    \* "Autocarro"
    <<"A","u","t","o","c","a","r","r","o">>,
    \* "COMBOIO"
    <<"C","O","M","B","O","I","O">>,
    \* "miúdo"
    <<"m","i","u'","d","o">>,
    \* "MIÚDO"
    <<"M","I","U'","D","O">>,
    \* "miudo"
    <<"m","i","u","d","o">>,
    \* "voce"
    <<"v","o","c","e">>,
    \* "Hello there"
    <<"H","e","l","l","o"," ","t","h","e","r","e">>,
    \* ""
    <<>>,
    \* "t u"
    <<"t"," ","u">>
}

\* what stands after it
LanguageSuffixes == {
    \* ""
    <<>>,
    \* " sabes."
    <<" ","s","a","b","e","s",".">>,
    \* "s"
    <<"s">>
}

LanguageTexts ==
    {p \o c \o s : p \in LanguagePrefixes, c \in LanguageCores, s \in LanguageSuffixes}

\* tags the identifier can answer with
LangTags == {"en", "pt", "es", "fr", "zh-cn"}

\* what langdetect.detect can do: raise, or return a tag
Identified ==
    {[raised |-> TRUE, lang |-> "none"]} \cup {[raised |-> FALSE, lang |-> l] : l \in LangTags}

InitLanguage ==
    /\ text \in LanguageTexts
    /\ op = "none"
    /\ out = NoValue
    /\ args = NoValue
    /\ batch = <<>>
    /\ report = NoValue
    /\ ServiceStarted

DetectLanguage ==
    /\ op = "none"
    /\ \E identified \in Identified :
          /\ args' = identified
          /\ out' = detect_language(text, identified)
    /\ op' = "detect_language"
    /\ UNCHANGED <<text, batch, report>>
    /\ UNCHANGED server

NextLanguage == DetectLanguage

SpecLanguage == InitLanguage /\ [][NextLanguage]_vars

----------------------------------------------------------------------------
(* The functions on degenerate input *)

\* the longest blank text
MaxBlank == 3

\* the empty text and the texts of whitespace only
BlankTexts == UNION {[1..n -> Whitespace] : n \in 0..MaxBlank}

InitDegenerate ==
    /\ text \in BlankTexts
    /\ op = "none"
    /\ out = NoValue
    /\ args = NoValue
    /\ batch = <<>>
    /\ report = NoValue
    /\ ServiceStarted

NextDegenerate ==
    Evaluate \/ NeedsRewrite \/ CleanResponse \/ TruncateToTwoSentences \/ EnforceKidSafety

SpecDegenerate == InitDegenerate /\ [][NextDegenerate]_vars

----------------------------------------------------------------------------
(* format_for_language on its own *)

\* what stands before the core of a vocabulary text
FormatPrefixes == {
    \* ""
    <<>>,
    \* "O "
    <<"O"," ">>,
    \* "a"
    <<"a">>,
    \* "_"
    <<"_">>,
    \* "-"
    <<"-">>,
    \* "você "
    <<"v","o","c","e^"," ">>
}

\* the words of the mapping in several spellings, longer words that hold one, the
\* words the mapping puts in, and texts without any
FormatCores == {
    \* "você"
    <<"v","o","c","e^">>,
    \* "Você"
    <<"V","o","c","e^">>,
    \* "VOCÊ"
    <<"V","O","C","E^">>,
    \* "vocês"
    <<"v","o","c","e^","s">>,
    \* "Vocês"
    <<"V","o","c","e^","s">>,
    \* "banheiro"
    <<"b","a","n","h","e","i","r","o">>,
    \* "trem"
    <<"t","r","e","m">>,
    \* "Trem"
    <<"T","r","e","m">>,
    \* "ônibus"
    <<"o^","n","i","b","u","s">>,
    \* "Ônibus"
    <<"O^","n","i","b","u","s">>,
    \* "sorvete"
    <<"s","o","r","v","e","t","e">>,
    \* "criança"
    <<"c","r","i","a","n","c,","a">>,
    \* "crianças"
    <<"c","r","i","a","n","c,","a","s">>,
    \* "CRIANÇAS"
    <<"C","R","I","A","N","C,","A","S">>,
    \* "tremer"
    <<"t","r","e","m","e","r">>,
    \* "tu"
    <<"t","u">>,
    \* "casa de banho"
    <<"c","a","s","a"," ","d","e"," ","b","a","n","h","o">>,
    \* "voce"
    <<"v","o","c","e">>,
    \* ""
    <<>>
}

\* what stands after it
FormatSuffixes == {
    \* ""
    <<>>,
    \* " trem."
    <<" ","t","r","e","m",".">>,
    \* "s"
    <<"s">>,
    \* "-"
    <<"-">>,
    \* "zinho"
    <<"z","i","n","h","o">>,
    \* "2"
    <<"2">>,
    \* ", criança!"
    <<","," ","c","r","i","a","n","c,","a","!">>,
    \* "\ntrem"
    <<"\n","t","r","e","m">>
}

FormatTexts ==
    {p \o c \o s : p \in FormatPrefixes, c \in FormatCores, s \in FormatSuffixes}

\* language tags a caller can pass
FormatLanguages == {"pt-PT", "pt", "pt-BR", "en", "PT-PT", ""}

InitFormat ==
    /\ text \in FormatTexts
    /\ op = "none"
    /\ out = NoValue
    /\ args \in {[language |-> l] : l \in FormatLanguages}
    /\ batch = <<>>
    /\ report = NoValue
    /\ ServiceStarted

FormatForLanguage ==
    /\ op = "none"
    /\ out' = format_for_language(text, args.language)
    /\ op' = "format_for_language"
    /\ UNCHANGED <<text, args, batch, report>>
    /\ UNCHANGED server

NextFormat == FormatForLanguage

SpecFormat == InitFormat /\ [][NextFormat]_vars

----------------------------------------------------------------------------
(* RateLimiter: check_rate_limit and get_remaining run by concurrent tasks *)

\* the largest max_requests and window of a limiter of the model, and the last
\* minute of the clock
MaxRequests == 2
MaxWindow == 2
MaxTime == 4

\* the message of a denied request (the source ends it with a smiling face)
TooManyQuestions == "Too many questions! Take a break and come back in a few minutes"

\* the list self.requests holds for the session; the empty list when the key
\* is missing
Recorded(limiter, session_id) ==
    IF session_id \in DOMAIN limiter.requests THEN limiter.requests[session_id] ELSE <<>>

\* a pruning that keeps the requests that are exactly one window old
PrunedInclusive(reqs, now, window) ==
    LET kept == Positions([i \in 1..Len(reqs) |-> now - reqs[i] <= window], 1, Len(reqs))
    IN  [k \in 1..Len(kept) |-> reqs[kept[k]]]

\* [req_time for req_time in reqs if now - req_time < window]
Pruned(reqs, now, window) ==
    LET kept == Positions([i \in 1..Len(reqs) |-> now - reqs[i] < window], 1, Len(reqs))
    IN  [k \in 1..Len(kept) |-> reqs[kept[k]]]

\* an assignment that starts a new dictionary with the session's list alone
WithRequestsAlone(limiter, session_id, reqs) ==
    [limiter EXCEPT !.requests = [s \in {session_id} |-> reqs]]
\* the limiter with self.requests[session_id] = reqs
WithRequests(limiter, session_id, reqs) ==
    [limiter EXCEPT !.requests =
        [s \in DOMAIN limiter.requests \cup {session_id} |->
            IF s = session_id THEN reqs ELSE limiter.requests[s]]]

\* a lock that lets every task in
CanAcquireAlways(holder) == TRUE

\* async with self._lock: a task gets the lock when no task holds it
CanAcquire(holder) == holder = "free"

\* a count that takes every recorded request, whatever its age
get_remaining_unpruned(limiter, session_id, now) ==
    IF session_id \in DOMAIN limiter.requests
    THEN LET left == limiter.max_requests - Len(limiter.requests[session_id])
         IN  IF left > 0 THEN left ELSE 0
    ELSE limiter.max_requests

\* what get_remaining returns under the lock, now being datetime.now()
get_remaining(limiter, session_id, now) ==
    IF session_id \in DOMAIN limiter.requests
    THEN LET valid_requests == Pruned(limiter.requests[session_id], now, limiter.window)
             left == limiter.max_requests - Len(valid_requests)
         IN  IF left > 0 THEN left ELSE 0
    ELSE limiter.max_requests

\* the task with its line and its local variables changed
At(task, pc, locals) == [task EXCEPT !.pc = pc, !.locals = locals]

\* a client's request reaches check_rate_limit(session_id)
CallCheckRateLimit(t, session_id) ==
    /\ tasks[t].pc = "idle"
    /\ tasks' = [tasks EXCEPT ![t] =
                   [fn |-> "check_rate_limit", pc |-> "line18",
                    locals |-> [session_id |-> session_id, now |-> NoValue,
                                result |-> NoValue]]]
    /\ UNCHANGED <<text, op, out, args, batch, report>>
    /\ UNCHANGED <<rate_limiter, lock, clock, llm_calls, log>>

\* a client's request reaches get_remaining(session_id)
CallGetRemaining(t, session_id) ==
    /\ tasks[t].pc = "idle"
    /\ tasks' = [tasks EXCEPT ![t] =
                   [fn |-> "get_remaining", pc |-> "line38",
                    locals |-> [session_id |-> session_id, now |-> NoValue,
                                result |-> NoValue]]]
    /\ UNCHANGED <<text, op, out, args, batch, report>>
    /\ UNCHANGED <<rate_limiter, lock, clock, llm_calls, log>>

\* lines 18 and 38: the task enters async with self._lock
AcquireLock(t) ==
    /\ tasks[t].pc \in {"line18", "line38"}
    /\ CanAcquire(lock)
    /\ lock' = t
    /\ tasks' = [tasks EXCEPT ![t].pc = IF tasks[t].pc = "line18" THEN "line19" ELSE "line39"]
    /\ UNCHANGED <<text, op, out, args, batch, report>>
    /\ UNCHANGED <<rate_limiter, clock, llm_calls, log>>

\* lines 19-26: now = datetime.now(), and the session's old requests go
CleanOldRequests(t) ==
    /\ tasks[t].fn = "check_rate_limit"
    /\ tasks[t].pc = "line19"
    /\ LET session_id == tasks[t].locals.session_id
       IN  /\ rate_limiter' =
                IF session_id \in DOMAIN rate_limiter.requests
                THEN WithRequests(rate_limiter, session_id,
                                  Pruned(rate_limiter.requests[session_id], clock,
                                         rate_limiter.window))
                ELSE rate_limiter
           /\ tasks' = [tasks EXCEPT ![t] =
                          At(tasks[t], "line29", [tasks[t].locals EXCEPT !.now = clock])]
    /\ UNCHANGED <<text, op, out, args, batch, report>>
    /\ UNCHANGED <<lock, clock, llm_calls, log>>

\* lines 29-30: the limit is checked; reading self.requests[session_id] makes
\* the key when it is missing
CheckLimit(t) ==
    /\ tasks[t].fn = "check_rate_limit"
    /\ tasks[t].pc = "line29"
    /\ LET session_id == tasks[t].locals.session_id
           reqs == Recorded(rate_limiter, session_id)
       IN  /\ rate_limiter' = WithRequests(rate_limiter, session_id, reqs)
           /\ tasks' = [tasks EXCEPT ![t] =
                          IF Len(reqs) >= rate_limiter.max_requests
                          THEN At(tasks[t], "exit",
                                  [tasks[t].locals EXCEPT
                                     !.result = [allowed |-> FALSE,
                                                 message |-> TooManyQuestions]])
                          ELSE At(tasks[t], "line33", tasks[t].locals)]
    /\ UNCHANGED <<text, op, out, args, batch, report>>
    /\ UNCHANGED <<lock, clock, llm_calls, log>>

\* lines 33-34: the request is recorded and allowed
RecordRequest(t) ==
    /\ tasks[t].fn = "check_rate_limit"
    /\ tasks[t].pc = "line33"
    /\ LET session_id == tasks[t].locals.session_id
       IN  /\ rate_limiter' =
                WithRequests(rate_limiter, session_id,
                             Append(Recorded(rate_limiter, session_id), tasks[t].locals.now))
           /\ tasks' = [tasks EXCEPT ![t] =
                          At(tasks[t], "exit",
                             [tasks[t].locals EXCEPT
                                !.result = [allowed |-> TRUE, message |-> ""]])]
    /\ UNCHANGED <<text, op, out, args, batch, report>>
    /\ UNCHANGED <<lock, clock, llm_calls, log>>

\* lines 39-46: get_remaining counts the session's valid requests
CountRemaining(t) ==
    /\ tasks[t].fn = "get_remaining"
    /\ tasks[t].pc = "line39"
    /\ tasks' = [tasks EXCEPT ![t] =
                   At(tasks[t], "exit",
                      [tasks[t].locals EXCEPT
                         !.now = clock,
                         !.result = get_remaining(rate_limiter,
                                                  tasks[t].locals.session_id, clock)])]
    /\ UNCHANGED <<text, op, out, args, batch, report>>
    /\ UNCHANGED <<rate_limiter, lock, clock, llm_calls, log>>

\* the end of async with: the lock is released and the call returns
ReleaseLock(t) ==
    /\ tasks[t].fn \in {"check_rate_limit", "get_remaining"}
    /\ tasks[t].pc = "exit"
    /\ lock' = "free"
    /\ tasks' = [tasks EXCEPT ![t] = IdleTask]
    /\ UNCHANGED <<text, op, out, args, batch, report>>
    /\ UNCHANGED <<rate_limiter, clock, llm_calls, log>>

\* a minute passes
Tick ==
    /\ clock < MaxTime
    /\ clock' = clock + 1
    /\ UNCHANGED <<text, op, out, args, batch, report>>
    /\ UNCHANGED <<rate_limiter, lock, tasks, llm_calls, log>>

InitLimiter ==
    /\ text = <<>>
    /\ op = "none"
    /\ out = NoValue
    /\ args = NoValue
    /\ batch = <<>>
    /\ report = NoValue
    /\ rate_limiter \in {RateLimiter(m, w) : m \in 1..MaxRequests, w \in 1..MaxWindow}
    /\ lock = "free"
    /\ clock = 0
    /\ tasks = [t \in Tasks |-> IdleTask]
    /\ llm_calls = <<>>
    /\ log = <<>>

NextLimiter ==
    \/ \E t \in Tasks, session_id \in Sessions : CallCheckRateLimit(t, session_id)
    \/ \E t \in Tasks, session_id \in Sessions : CallGetRemaining(t, session_id)
    \/ \E t \in Tasks : AcquireLock(t)
    \/ \E t \in Tasks : CleanOldRequests(t)
    \/ \E t \in Tasks : CheckLimit(t)
    \/ \E t \in Tasks : RecordRequest(t)
    \/ \E t \in Tasks : CountRemaining(t)
    \/ \E t \in Tasks : ReleaseLock(t)
    \/ Tick

SpecLimiter == InitLimiter /\ [][NextLimiter]_vars
\* the lines of a call that the event loop runs once the task holds the lock
RunInLock(t) ==
    CleanOldRequests(t) \/ CheckLimit(t) \/ RecordRequest(t) \/ CountRemaining(t)
      \/ ReleaseLock(t)

\* one session that keeps asking: args holds its identifier
InitAsking ==
    /\ text = <<>>
    /\ op = "none"
    /\ out = NoValue
    /\ args \in {[session_id |-> s] : s \in Sessions}
    /\ batch = <<>>
    /\ report = NoValue
    /\ rate_limiter \in {RateLimiter(m, w) : m \in 1..MaxRequests, w \in 1..MaxWindow}
    /\ lock = "free"
    /\ clock = 0
    /\ tasks = [t \in Tasks |-> IdleTask]
    /\ llm_calls = <<>>
    /\ log = <<>>

NextAsking ==
    \/ \E t \in Tasks : CallCheckRateLimit(t, args.session_id)
    \/ \E t \in Tasks : CallGetRemaining(t, args.session_id)
    \/ \E t \in Tasks : AcquireLock(t)
    \/ \E t \in Tasks : CleanOldRequests(t)
    \/ \E t \in Tasks : CheckLimit(t)
    \/ \E t \in Tasks : RecordRequest(t)
    \/ \E t \in Tasks : CountRemaining(t)
    \/ \E t \in Tasks : ReleaseLock(t)
    \/ Tick

\* the limiter with a clock that goes on, an event loop that runs every task
\* that can run, a lock that serves every waiting task in its turn (asyncio.Lock
\* wakes its waiters in the order they came), and a session that asks again
\* and again
FairLimiter ==
    /\ InitAsking /\ [][NextAsking]_vars
    /\ WF_vars(Tick)
    /\ \A t \in Tasks : WF_vars(RunInLock(t)) /\ SF_vars(AcquireLock(t))
    /\ SF_vars(\E t \in Tasks : CallCheckRateLimit(t, args.session_id))

----------------------------------------------------------------------------
(* The /ask request flow *)

\* unsafe_keywords of is_safe_topic, in the order of the list
unsafe_keywords == <<
    <<"v","i","o","l","e","n","c","e">>,
    <<"d","e","a","t","h">>,
    <<"k","i","l","l">>,
    <<"m","u","r","d","e","r">>,
    <<"s","u","i","c","i","d","e">>,
    <<"d","r","u","g">>,
    <<"a","l","c","o","h","o","l">>,
    <<"c","i","g","a","r","e","t","t","e">>,
    <<"s","m","o","k","e">>,
    <<"s","e","x">>,
    <<"a","d","u","l","t">>,
    <<"i","n","a","p","p","r","o","p","r","i","a","t","e">>
>>

\* "Let's ask an adult together about that."
SafetyMessage ==
    <<"L","e","t","'","s"," ","a","s","k"," ","a","n"," ","a","d","u","l","t"," ","t","o","g","e","t","h","e","r"," ","a","b","o","u","t"," ","t","h","a","t",".">>

\* a filter that looks the keywords up in the question as it is written
is_safe_topic_case_sensitive(question) ==
    IF \E k \in 1..Len(unsafe_keywords) : Contains(question, unsafe_keywords[k])
    THEN [is_safe |-> FALSE, safety_message |-> SafetyMessage]
    ELSE [is_safe |-> TRUE, safety_message |-> <<>>]

\* is_safe_topic(question)
is_safe_topic(question) ==
    IF \E k \in 1..Len(unsafe_keywords) : Contains(Lower(question), unsafe_keywords[k])
    THEN [is_safe |-> FALSE, safety_message |-> SafetyMessage]
    ELSE [is_safe |-> TRUE, safety_message |-> <<>>]

\* questions a child can send: with and without a keyword, a keyword in capitals
\* and a keyword inside a longer word
Questions == {
    \* "Why?"
    <<"W","h","y","?">>,
    \* "Is DEATH bad?"
    <<"I","s"," ","D","E","A","T","H"," ","b","a","d","?">>,
    \* "skills"
    <<"s","k","i","l","l","s">>
}

\* texts the language model can answer with
Responses == {
    \* " Sky.\n"
    <<" ","S","k","y",".","\n">>,
    \* "Ok"
    <<"O","k">>
}

\* no request comes in once the language model has got so many calls
MaxAsks == 1

\* what request.session_id can be, None included, and what start_session makes
RequestSessions == {"s1", "None"}
NewSession == "new"

\* a request reaches the handler: ask(request)
CallAsk(t, question, session_id) ==
    /\ tasks[t].pc = "idle"
    /\ Len(llm_calls) < MaxAsks
    /\ tasks' = [tasks EXCEPT ![t] =
                   [fn |-> "ask", pc |-> "line151",
                    locals |-> [question |-> question, session_id |-> session_id,
                                is_safe |-> NoValue, full_text |-> NoValue,
                                result |-> NoValue]]]
    /\ UNCHANGED <<text, op, out, args, batch, report>>
    /\ UNCHANGED <<rate_limiter, lock, clock, llm_calls, log>>

\* lines 151-156: the topic is checked; an unsafe question is answered with
\* the safety message at once
CheckTopicSafety(t) ==
    /\ tasks[t].fn = "ask"
    /\ tasks[t].pc = "line151"
    /\ LET checked == is_safe_topic(tasks[t].locals.question)
       IN  tasks' = [tasks EXCEPT ![t] =
                       IF ~checked.is_safe
                       THEN At(tasks[t], "returned",
                               [tasks[t].locals EXCEPT
                                  !.is_safe = FALSE,
                                  !.result = [status |-> 200,
                                              response |-> checked.safety_message]])
                       ELSE At(tasks[t], "line160",
                               [tasks[t].locals EXCEPT !.is_safe = TRUE])]
    /\ UNCHANGED <<text, op, out, args, batch, report>>
    /\ UNCHANGED <<rate_limiter, lock, clock, llm_calls, log>>

\* lines 160-205: the language is detected (a value that line 227 replaces
\* before any use), the backend made and the prompt built; an exception
\* (get_llm_backend without an API key) ends the request with status 500
\* (lines 243-245)
PrepareGenerate(t) ==
    /\ tasks[t].fn = "ask"
    /\ tasks[t].pc = "line160"
    /\ \/ tasks' = [tasks EXCEPT ![t].pc = "line207"]
       \/ tasks' = [tasks EXCEPT ![t] =
                      At(tasks[t], "returned",
                         [tasks[t].locals EXCEPT !.result = [status |-> 500]])]
    /\ UNCHANGED <<text, op, out, args, batch, report>>
    /\ UNCHANGED <<rate_limiter, lock, clock, llm_calls, log>>

\* line 207: llm.generate is called with the question, and the task waits
CallGenerate(t) ==
    /\ tasks[t].fn = "ask"
    /\ tasks[t].pc = "line207"
    /\ llm_calls' = Append(llm_calls, [user |-> tasks[t].locals.question])
    /\ tasks' = [tasks EXCEPT ![t].pc = "awaiting"]
    /\ UNCHANGED <<text, op, out, args, batch, report>>
    /\ UNCHANGED <<rate_limiter, lock, clock, log>>

\* lines 207-215: generate answers and full_text is its stripped text, or it
\* fails and the request ends with status 500
GenerateReturns(t) ==
    /\ tasks[t].fn = "ask"
    /\ tasks[t].pc = "awaiting"
    /\ \/ \E response \in Responses :
            tasks' = [tasks EXCEPT ![t] =
                        At(tasks[t], "line227",
                           [tasks[t].locals EXCEPT !.full_text = Strip(response)])]
       \/ tasks' = [tasks EXCEPT ![t] =
                      At(tasks[t], "returned",
                         [tasks[t].locals EXCEPT !.result = [status |-> 500]])]
    /\ UNCHANGED <<text, op, out, args, batch, report>>
    /\ UNCHANGED <<rate_limiter, lock, clock, llm_calls, log>>

\* lines 227-241: the language is detected again, the exchange is logged and
\* the text is returned as it is; a failing write ends the request with
\* status 500
LogAndReturn(t) ==
    /\ tasks[t].fn = "ask"
    /\ tasks[t].pc = "line227"
    /\ \/ \E identified \in Identified :
            LET language == detect_language(tasks[t].locals.question, identified)
                session_id == IF tasks[t].locals.session_id # "None"
                              THEN tasks[t].locals.session_id ELSE NewSession
            IN  /\ log' = Append(log, [session_id |-> session_id,
                                       question |-> tasks[t].locals.question,
                                       response |-> tasks[t].locals.full_text,
                                       language |-> language])
                /\ tasks' = [tasks EXCEPT ![t] =
                               At(tasks[t], "returned",
                                  [tasks[t].locals EXCEPT
                                     !.result = [status |-> 200,
                                                 response |-> tasks[t].locals.full_text]])]
       \/ /\ log' = log
          /\ tasks' = [tasks EXCEPT ![t] =
                         At(tasks[t], "returned",
                            [tasks[t].locals EXCEPT !.result = [status |-> 500]])]
    /\ UNCHANGED <<text, op, out, args, batch, report>>
    /\ UNCHANGED <<rate_limiter, lock, clock, llm_calls>>

\* the response has gone out and the task ends
FinishAsk(t) ==
    /\ tasks[t].fn = "ask"
    /\ tasks[t].pc = "returned"
    /\ tasks' = [tasks EXCEPT ![t] = IdleTask]
    /\ UNCHANGED <<text, op, out, args, batch, report>>
    /\ UNCHANGED <<rate_limiter, lock, clock, llm_calls, log>>

InitAsk ==
    /\ text = <<>>
    /\ op = "none"
    /\ out = NoValue
    /\ args = NoValue
    /\ batch = <<>>
    /\ report = NoValue
    /\ ServiceStarted

NextAsk ==
    \/ \E t \in Tasks, question \in Questions, session_id \in RequestSessions :
          CallAsk(t, question, session_id)
    \/ \E t \in Tasks : CheckTopicSafety(t)
    \/ \E t \in Tasks : PrepareGenerate(t)
    \/ \E t \in Tasks : CallGenerate(t)
    \/ \E t \in Tasks : GenerateReturns(t)
    \/ \E t \in Tasks : LogAndReturn(t)
    \/ \E t \in Tasks : FinishAsk(t)

SpecAsk == InitAsk /\ [][NextAsk]_vars

----------------------------------------------------------------------------
(* chunk_text (src/api/utils.py) *)

\* re.split(r'(?<=[.!?])\s+', text) of a stripped text: the pieces between
\* the whitespace runs that come straight after a terminator
SplitAfterTerminators(s) ==
    LET sep == [i \in 1..Len(s) |->
                    /\ s[i] \in Whitespace
                    /\ \E j \in 2..i : /\ s[j - 1] \in Terminators
                                       /\ \A k \in j..i : s[k] \in Whitespace]
    IN  Runs(s, [i \in 1..Len(s) |-> ~sep[i]])

\* sentence.split(', ')
RECURSIVE SplitCommaSpace(_)
SplitCommaSpace(s) ==
    LET found == {i \in 1..(Len(s) - 1) : s[i] = "," /\ s[i + 1] = " "}
    IN  IF found = {} THEN <<s>>
        ELSE LET i == CHOOSE x \in found : \A y \in found : x <= y
             IN  <<SubSeq(s, 1, i - 1)>> \o SplitCommaSpace(SubSeq(s, i + 2, Len(s)))

\* chunks and current_chunk before the loop
NoChunks == [chunks |-> <<>>, current_chunk |-> <<>>]

\* one piece offered to the current chunk, sep the separator it is joined
\* with: the word of lines 33-38 (" "), the part of lines 40-45 (", ") or the
\* sentence of lines 48-53 (" ").  A piece that does not fit is left out when
\* the current chunk is empty: no branch of the inner if takes it.
AddToChunk(st, piece, sep, max_chunk_size) ==
    IF Len(st.current_chunk) + Len(piece) + Len(sep) > max_chunk_size
    THEN IF st.current_chunk # <<>>
         THEN [chunks |-> Append(st.chunks, Strip(st.current_chunk)),
               current_chunk |-> piece]
         ELSE st
    ELSE [chunks |-> st.chunks,
          current_chunk |-> IF st.current_chunk # <<>>
                            THEN st.current_chunk \o sep \o piece ELSE piece]

\* for word in words, from the k-th word on
RECURSIVE AddWords(_, _, _, _)
AddWords(st, words, k, max_chunk_size) ==
    IF k > Len(words) THEN st
    ELSE AddWords(AddToChunk(st, words[k], <<" ">>, max_chunk_size),
                  words, k + 1, max_chunk_size)

\* for part in parts, from the k-th part on
RECURSIVE AddParts(_, _, _, _)
AddParts(st, parts, k, max_chunk_size) ==
    IF k > Len(parts) THEN st
    ELSE LET part == parts[k]
             next == IF Len(part) > max_chunk_size
                     THEN AddWords(st, Split(part), 1, max_chunk_size)
                     ELSE AddToChunk(st, part, <<",", " ">>, max_chunk_size)
         IN  AddParts(next, parts, k + 1, max_chunk_size)

\* for sentence in sentences, from the k-th sentence on
RECURSIVE AddSentences(_, _, _, _)
AddSentences(st, sentences, k, max_chunk_size) ==
    IF k > Len(sentences) THEN st
    ELSE LET sentence == sentences[k]
             next == IF Len(sentence) > max_chunk_size
                     THEN AddParts(st, SplitCommaSpace(sentence), 1, max_chunk_size)
                     ELSE AddToChunk(st, sentence, <<" ">>, max_chunk_size)
         IN  AddSentences(next, sentences, k + 1, max_chunk_size)

chunk_text(t, max_chunk_size) ==
    LET stripped == Strip(t)
        st == AddSentences(NoChunks, SplitAfterTerminators(stripped), 1, max_chunk_size)
    IN  IF stripped = <<>> THEN <<>>
        ELSE IF st.current_chunk # <<>>
             THEN Append(st.chunks, Strip(st.current_chunk))
             ELSE st.chunks

----------------------------------------------------------------------------
(* chunk_text on its own *)

\* the longest text, and the largest max_chunk_size
MaxChunkLen == 5
MaxChunkSize == 4

ChunkAlphabet == {"a", "b", " ", ",", "."}

ChunkTexts == UNION {[1..n -> ChunkAlphabet] : n \in 0..MaxChunkLen}

InitChunk ==
    /\ text \in ChunkTexts
    /\ args \in {[max_chunk_size |-> m] : m \in 1..MaxChunkSize}
    /\ op = "none"
    /\ out = NoValue
    /\ batch = <<>>
    /\ report = NoValue
    /\ ServiceStarted

ChunkText ==
    /\ op = "none"
    /\ out' = chunk_text(text, args.max_chunk_size)
    /\ op' = "chunk_text"
    /\ UNCHANGED <<text, args, batch, report>>
    /\ UNCHANGED server

NextChunk == ChunkText

SpecChunk == InitChunk /\ [][NextChunk]_vars

----------------------------------------------------------------------------
(* Properties of evaluate *)

\* the five thresholds, read off the fields of a returned EvaluationMetrics
ThresholdsOnFields(m) ==
    /\ m.sentence_count <= 5
    /\ RLe(m.avg_words_per_sentence, Int2Rat(15))
    /\ RLe(Int2Rat(75), m.readability_score)
    /\ m.technical_terms_found = <<>>
    /\ m.safety_issues = <<>>

\* C1 as stated: passed is true exactly when the five thresholds hold on the
\* (rounded) fields of the returned value.
C1_PassedIffFields ==
    op = "evaluate" => (out.passed <=> ThresholdsOnFields(out))

\* C1 as amended: passed is decided by the readability before rounding; on the
\* returned fields, passed implies the five thresholds, and the five thresholds
\* imply passed unless readability_score is exactly 75.0.
C1_PassedOnUnrounded ==
    op = "evaluate" =>
        /\ out.passed <=>
             /\ out.sentence_count <= 5
             /\ RLe(out.avg_words_per_sentence, Int2Rat(15))
             /\ RLe(Int2Rat(75), calculate_flesch_score(Strip(text)))
             /\ out.technical_terms_found = <<>>
             /\ out.safety_issues = <<>>
        /\ out.passed => ThresholdsOnFields(out)
        /\ (ThresholdsOnFields(out) /\ out.readability_score # Int2Rat(75)) => out.passed

\* a five-sentence response below the readability bonus passes
C1_Witness ==
    /\ op = "evaluate"
    /\ out.passed
    /\ out.sentence_count = 5
    /\ RLt(out.readability_score, Int2Rat(90))

----------------------------------------------------------------------------
(* Properties of _calculate_overall_score *)

\* C2: the score is in [0,100] for every input, and so is the overall_score
\* field, which is the score rounded to one decimal.
C2_ScoreInRange ==
    op = "overall_score" =>
        /\ RLe(Int2Rat(0), out) /\ RLe(out, Int2Rat(100))
        /\ \A r \in Round1(out) : RLe(Int2Rat(0), r) /\ RLe(r, Int2Rat(100))

\* a score that only the clamp kept from falling below 0
C2_Witness ==
    /\ op = "overall_score"
    /\ out = Int2Rat(0)
    /\ RLt(ScoreSteps(args.sentence_count, args.avg_words, args.readability,
                      args.complex_count, args.technical_found, args.safety_issues),
           Int2Rat(0))

\* C3: one more complex word, technical term or safety issue never raises the
\* score, all other inputs held fixed.
C3_Monotone ==
    op = "overall_score" =>
        /\ RLe(ScoreOf([args EXCEPT !.complex_count = @ + 1]), out)
        /\ RLe(ScoreOf([args EXCEPT !.technical_found = Append(@, TagChemicalFormula)]), out)
        /\ RLe(ScoreOf([args EXCEPT !.safety_issues = Append(@, TagScaryContent)]), out)

\* an input whose score strictly drops with each of the three
C3_Witness ==
    /\ op = "overall_score"
    /\ RLt(ScoreOf([args EXCEPT !.complex_count = @ + 1]), out)
    /\ RLt(ScoreOf([args EXCEPT !.technical_found = Append(@, TagChemicalFormula)]), out)
    /\ RLt(ScoreOf([args EXCEPT !.safety_issues = Append(@, TagScaryContent)]), out)
    /\ args.complex_count > 0

\* 1 when b holds, 0 otherwise
Iverson(b) == IF b THEN 1 ELSE 0

\* the reference formula of C4 on an argument record, before the clamp
ReferenceSum(a) ==
    LET overAvg == RMulInt(RSub(a.avg_words, Int2Rat(10)), 3)
        under80 == RSub(Int2Rat(80), a.readability)
        sentenceTerm == Iverson(a.sentence_count > 2) * (a.sentence_count - 2) * 20
        wordTerm == RMulInt(RMin(Int2Rat(30), overAvg), Iverson(RLt(Int2Rat(10), a.avg_words)))
        bonusTerm == Iverson(RLe(Int2Rat(90), a.readability)) * 10
        readTerm == RMulInt(RMin(Int2Rat(30), under80), Iverson(RLt(a.readability, Int2Rat(80))))
        countTerm == a.complex_count * 5 + Len(a.technical_found) * 15 + Len(a.safety_issues) * 20
    IN  RSub(RSub(Int2Rat(100 - sentenceTerm + bonusTerm - countTerm), wordTerm), readTerm)

\* C4: the score equals the reference formula, the penalties summed and the
\* clamp applied once at the end.
C4_EqualsReference ==
    op = "overall_score" =>
        out = (IF RLt(ReferenceSum(args), Int2Rat(0)) THEN Int2Rat(0)
               ELSE IF RLt(Int2Rat(100), ReferenceSum(args)) THEN Int2Rat(100)
               ELSE ReferenceSum(args))

\* every penalty and the bonus at work at once, the score strictly inside (0,100)
C4_Witness ==
    /\ op = "overall_score"
    /\ args.sentence_count > 2
    /\ RLt(Int2Rat(10), args.avg_words)
    /\ RLt(args.readability, Int2Rat(80))
    /\ args.complex_count > 0
    /\ args.technical_found # <<>>
    /\ args.safety_issues # <<>>
    /\ RLt(Int2Rat(0), out)

----------------------------------------------------------------------------
(* Properties of the gate against the score, and of evaluate_batch *)

\* C5: the gate and the score disagree in both directions: the response of
\* five long sentences with a complex word meets every threshold and passes
\* with a score of at most 40, brought down by the sentence-count, the
\* sentence-length, the readability and the complex-word penalties; the
\* response whose only flaw is one technical term fails with a score above 40.
C5_GateAndScoreDisagree ==
    (op = "evaluate_batch" /\ ~report.raised) =>
        \A i \in 1..Len(report.results) :
            LET r == report.results[i]
            IN  /\ r.response = FourPenaltyText =>
                     /\ r.metrics.passed
                     /\ ThresholdsOnFields(r.metrics)
                     /\ r.metrics.sentence_count > 2
                     /\ RLt(Int2Rat(10), r.metrics.avg_words_per_sentence)
                     /\ RLt(r.metrics.readability_score, Int2Rat(80))
                     /\ r.metrics.complex_word_count > 0
                     /\ RLe(r.metrics.overall_score, Int2Rat(40))
                /\ r.response = OneTermText =>
                     /\ ~r.metrics.passed
                     /\ Len(r.metrics.technical_terms_found) = 1
                     /\ r.metrics.safety_issues = <<>>
                     /\ RLe(Int2Rat(90), r.metrics.readability_score)
                     /\ RLt(Int2Rat(40), r.metrics.overall_score)

\* one report that holds a disagreement of either kind
C5_Witness ==
    /\ op = "evaluate_batch"
    /\ ~report.raised
    /\ \E i, j \in 1..Len(report.results) :
          /\ report.results[i].metrics.passed
          /\ RLe(report.results[i].metrics.overall_score, Int2Rat(40))
          /\ ~report.results[j].metrics.passed
          /\ RLt(Int2Rat(40), report.results[j].metrics.overall_score)

\* C9: evaluate_batch([]) returns no results and an all-zero summary.
C9_EmptyBatchSummary ==
    (op = "evaluate_batch" /\ batch = <<>>) =>
        /\ ~report.raised
        /\ report.results = <<>>
        /\ report.summary.total = 0
        /\ report.summary.passed = 0
        /\ report.summary.pass_rate = Int2Rat(0)
        /\ report.summary.avg_score = Int2Rat(0)

\* r is a multiple of one tenth nearest to x
NearestTenth(r, x) ==
    /\ 10 % r.d = 0
    /\ RLe(RSub(r, x), Rat(1, 20))
    /\ RLe(RSub(x, r), Rat(1, 20))

\* C10: for a non-empty batch, one result per pair in input order holding the
\* metrics of evaluate, and a summary with total, passed, pass_rate and
\* avg_score as the claim gives them.
C10_BatchReport ==
    (op = "evaluate_batch" /\ batch # <<>>) =>
        /\ ~report.raised
        /\ Len(report.results) = Len(batch)
        /\ \A i \in 1..Len(batch) :
             /\ report.results[i].question = batch[i][1]
             /\ report.results[i].response = batch[i][2]
             /\ report.results[i].metrics \in evaluate(batch[i][2], batch[i][1])
        /\ LET sm == report.summary
               passing == {i \in 1..Len(batch) : report.results[i].metrics.passed}
               scores == [i \in 1..Len(batch) |-> report.results[i].metrics.overall_score]
           IN  /\ sm.total = Len(batch)
               /\ sm.passed = Cardinality(passing)
               /\ 0 <= sm.passed /\ sm.passed <= sm.total
               /\ RLe(Int2Rat(0), sm.pass_rate) /\ RLe(sm.pass_rate, Int2Rat(100))
               /\ NearestTenth(sm.pass_rate, Rat(sm.passed * 100, sm.total))
               /\ NearestTenth(sm.avg_score, Rat(RSum(scores).n, RSum(scores).d * sm.total))

\* a full batch, part of it passing, whose pass rate had to be rounded
C10_Witness ==
    /\ op = "evaluate_batch"
    /\ Len(batch) = MaxBatch
    /\ ~report.raised
    /\ report.summary.passed > 0
    /\ report.summary.passed < report.summary.total
    /\ report.summary.pass_rate # Rat(report.summary.passed * 100, report.summary.total)

----------------------------------------------------------------------------
(* Properties of the text functions *)

IsBlankChar(c) == c \in Whitespace
IsTerminator(c) == c \in Terminators

\* position i of t holds the first character of a whitespace-delimited word
WordStartsAt(t, i) == ~IsBlankChar(t[i]) /\ (i = 1 \/ IsBlankChar(t[i - 1]))

\* position j of t holds the last character of the word that starts at i
WordEndsAt(t, i, j) ==
    /\ j >= i
    /\ \A k \in i..j : ~IsBlankChar(t[k])
    /\ j = Len(t) \/ IsBlankChar(t[j + 1])

\* no terminator stands at the positions lo..hi of t
NoTerminator(t, lo, hi) == \A k \in lo..hi : ~IsTerminator(t[k])

\* position i holds the first (last) character that is neither blank nor a
\* terminator of its fragment between terminator runs
SentenceStartsAt(t, i) ==
    /\ ~IsBlankChar(t[i]) /\ ~IsTerminator(t[i])
    /\ \A j \in 1..(i - 1) : NoTerminator(t, j, i) => IsBlankChar(t[j])
SentenceEndsAt(t, i) ==
    /\ ~IsBlankChar(t[i]) /\ ~IsTerminator(t[i])
    /\ \A j \in (i + 1)..Len(t) : NoTerminator(t, i, j) => IsBlankChar(t[j])

\* the k-th smallest member of a set of numbers
Kth(S, k) == CHOOSE x \in S : Cardinality({y \in S : y < x}) = k - 1

\* the sum of f over the set S
RECURSIVE SumOver(_, _)
SumOver(S, f) ==
    IF S = {} THEN 0 ELSE LET x == CHOOSE y \in S : TRUE IN f[x] + SumOver(S \ {x}, f)

\* C6: the Flesch score is in [0,100]; it is exactly 100 for a text without a
\* sentence or without a word; otherwise it is 206.835 - 1.015*(W/S) -
\* 84.6*(Syl/W) clamped into [0,100], the words those of the whole text.
C6_FleschScore ==
    op = "flesch_score" =>
        LET wordStarts == {i \in 1..Len(text) : WordStartsAt(text, i)}
            W == Cardinality(wordStarts)
            S == Cardinality({i \in 1..Len(text) : SentenceStartsAt(text, i)})
            syllablesAt == [i \in wordStarts |->
                              count_syllables(SubSeq(text, i,
                                  CHOOSE j \in i..Len(text) : WordEndsAt(text, i, j)))]
            Syl == SumOver(wordStarts, syllablesAt)
            \* the formula times 1000*S*W
            scaled == 206835 * S * W - 1015 * W * W - 84600 * Syl * S
        IN  /\ RLe(Int2Rat(0), out) /\ RLe(out, Int2Rat(100))
            /\ (S = 0 \/ W = 0) => out = Int2Rat(100)
            /\ (S > 0 /\ W > 0) =>
                 IF scaled < 0 THEN out = Int2Rat(0)
                 ELSE IF scaled > 100 * 1000 * S * W THEN out = Int2Rat(100)
                 ELSE /\ (1000 * S * W) % out.d = 0
                      /\ out.n * ((1000 * S * W) \div out.d) = scaled

\* a text of two sentences whose score lies strictly inside (0,100)
C6_Witness ==
    /\ op = "flesch_score"
    /\ RLt(Int2Rat(0), out) /\ RLt(out, Int2Rat(100))
    /\ Cardinality({i \in 1..Len(text) : SentenceStartsAt(text, i)}) = 2

\* C7: count_syllables is at least 1 and equals max(1, G - E), G the number of
\* maximal vowel runs of the lower-cased word, E = 1 when it ends in e.
C7_Syllables ==
    op = "count_syllables" =>
        LET isVowel == [i \in 1..Len(text) |-> text[i] \in Vowels \cup {"A", "E", "I", "O", "U"}]
            G == Cardinality({i \in 1..Len(text) : isVowel[i] /\ (i = 1 \/ ~isVowel[i - 1])})
            E == IF text # <<>> /\ text[Len(text)] \in {"e", "E"} THEN 1 ELSE 0
        IN  /\ out >= 1
            /\ out = (IF G - E >= 1 THEN G - E ELSE 1)

\* a word of two vowel runs that ends in a capital E and counts one syllable
C7_Witness ==
    /\ op = "count_syllables"
    /\ out = 1
    /\ Len(text) >= 3
    /\ text[Len(text)] = "E"
    /\ text[Len(text) - 1] = "b"
    /\ text[Len(text) - 2] \in Vowels

\* C8: split_sentences returns, in order, the non-blank fragments between the
\* maximal terminator runs, trimmed; blank text gives no sentence and non-blank
\* text without a terminator gives the trimmed text alone.
C8_SplitSentences ==
    op = "split_sentences" =>
        LET starts == {i \in 1..Len(text) : SentenceStartsAt(text, i)}
            ends == {i \in 1..Len(text) : SentenceEndsAt(text, i)}
            solid == {i \in 1..Len(text) : ~IsBlankChar(text[i])}
        IN  /\ Len(out) = Cardinality(starts)
            /\ Cardinality(ends) = Cardinality(starts)
            /\ \A k \in 1..Len(out) :
                 /\ out[k] = SubSeq(text, Kth(starts, k), Kth(ends, k))
                 /\ out[k] # <<>>
                 /\ ~IsBlankChar(out[k][1]) /\ ~IsBlankChar(out[k][Len(out[k])])
                 /\ NoTerminator(out[k], 1, Len(out[k]))
            /\ solid = {} => out = <<>>
            /\ (solid # {} /\ NoTerminator(text, 1, Len(text))) =>
                 out = <<SubSeq(text, Kth(solid, 1), Kth(solid, Cardinality(solid)))>>

\* two sentences out of a text with a terminator run, blanks around a
\* fragment and an empty fragment at the end
C8_Witness ==
    /\ op = "split_sentences"
    /\ Len(out) = 2
    /\ \E i \in 1..(Len(text) - 2) :
          /\ IsTerminator(text[i]) /\ IsTerminator(text[i + 1]) /\ IsBlankChar(text[i + 2])
    /\ IsTerminator(text[Len(text)])

----------------------------------------------------------------------------
(* Properties of the lexical detectors *)

\* pat (in lower case) is a case-insensitive substring of t
ContainsFolded(t, pat) ==
    \E i \in 1..(Len(t) - Len(pat) + 1) :
        \A j \in 1..Len(pat) : LowerChar(t[i + j - 1]) = pat[j]

\* the positions i..j of t hold a whole token: word characters, with none
\* next to it on either side
IsToken(t, i, j) ==
    /\ 1 <= i /\ i <= j /\ j <= Len(t)
    /\ \A k \in i..j : IsWordChar(t[k])
    /\ i = 1 \/ ~IsWordChar(t[i - 1])
    /\ j = Len(t) \/ ~IsWordChar(t[j + 1])

\* the token at i..j is an element symbol (a capital, perhaps a small letter)
\* followed by digits and nothing else
IsElementToken(t, i, j) ==
    /\ IsToken(t, i, j)
    /\ t[i] \in UpperSet
    /\ \E k \in {i + 1, i + 2} :
          /\ k <= j
          /\ k = i + 2 => t[i + 1] \in LowerSet
          /\ \A m \in k..j : t[m] \in Digits

\* the token at i..j is H2O, CO2 or O2
IsNamedFormulaToken(t, i, j) ==
    /\ IsToken(t, i, j)
    /\ SubSeq(t, i, j) \in {<<"H","2","O">>, <<"C","O","2">>, <<"O","2">>}

\* C11: every technical term that is a case-insensitive substring of the text
\* is listed in technical_terms_found, the tag chemical_formula is listed when
\* the text holds an element-symbol-plus-digits token or the token H2O, CO2
\* or O2, and a non-empty technical_terms_found makes passed false.
C11_TermsFound ==
    op = "evaluate" =>
        /\ \A k \in 1..Len(TECHNICAL_TERMS) :
              ContainsFolded(text, TECHNICAL_TERMS[k])
                => TECHNICAL_TERMS[k] \in Range(out.technical_terms_found)
        /\ (\E i, j \in 1..Len(text) :
               IsElementToken(text, i, j) \/ IsNamedFormulaToken(text, i, j))
             => TagChemicalFormula \in Range(out.technical_terms_found)
        /\ out.technical_terms_found # <<>> => ~out.passed

\* a term spelt with a capital inside a longer word, beside a formula token,
\* in a response that fails
C11_Witness ==
    /\ op = "evaluate"
    /\ ContainsFolded(text, <<"a","t","o","m">>)
    /\ ~Contains(text, <<"a","t","o","m">>)
    /\ ~\E i, j \in 1..Len(text) :
          IsToken(text, i, j) /\ Lower(SubSeq(text, i, j)) = <<"a","t","o","m">>
    /\ \E i, j \in 1..Len(text) : IsNamedFormulaToken(text, i, j)
    /\ Len(out.technical_terms_found) = 2
    /\ ~out.passed

\* a run of digits ends at position p of t and, after optional whitespace, a
\* degree sign follows, or the word degree or degrees
DigitsThenDegree(t, p) ==
    /\ t[p] \in Digits
    /\ LET q == SkipSpaces(t, p + 1)
       IN  \/ LitAt(t, q, <<"deg">>)
           \/ \E j \in {q + 5, q + 6} :
                 /\ IsToken(t, q, j)
                 /\ Lower(SubSeq(t, q, j)) \in {<<"d","e","g","r","e","e">>,
                                                 <<"d","e","g","r","e","e","s">>}

\* C12: _find_technical_terms lists the tag degree_notation exactly for the
\* texts that hold a run of digits followed by a degree sign or by the word
\* degree or degrees.
C12_DegreeNotation ==
    op = "find_technical_terms" =>
        (TagDegreeNotation \in Range(out)
           <=> \E p \in 1..Len(text) : DigitsThenDegree(text, p))

\* C13: _check_safety returns one "banned_phrase: <phrase>" entry for each
\* banned phrase that is a case-insensitive substring of the text, in the
\* declared order of BANNED_PHRASES and never twice, followed by one
\* potentially_scary_content entry exactly when the text holds one of the six
\* scary words; in evaluate a non-empty safety_issues makes passed false.
C13_SafetyIssues ==
    /\ op = "check_safety" =>
          LET hit == {k \in 1..Len(BANNED_PHRASES) : ContainsFolded(text, BANNED_PHRASES[k])}
              scary == \E k \in 1..Len(ScaryWords) : ContainsFolded(text, ScaryWords[k])
              n == Cardinality(hit)
          IN  /\ Len(out) = n + Iverson(scary)
              /\ \A j \in 1..n : out[j] = BannedPrefix \o BANNED_PHRASES[Kth(hit, j)]
              /\ scary => out[n + 1] = TagScaryContent
              /\ \A i, j \in 1..Len(out) : out[i] = out[j] => i = j
    /\ op = "evaluate" => (out.safety_issues # <<>> => ~out.passed)

\* two banned phrases, the later-declared one standing first in the text and
\* one of them standing twice, and a scary word in capitals
C13_Witness ==
    /\ op = "check_safety"
    /\ Len(out) = 3
    /\ out[1] = BannedPrefix \o BANNED_PHRASES[3]
    /\ out[2] = BannedPrefix \o BANNED_PHRASES[4]
    /\ out[3] = TagScaryContent
    /\ \E i, j, k \in 1..Len(text) :
          /\ LitAt(Lower(text), i, BANNED_PHRASES[4])
          /\ LitAt(Lower(text), j, BANNED_PHRASES[3])
          /\ LitAt(Lower(text), k, BANNED_PHRASES[3])
          /\ i < j /\ j < k
    /\ ~\E k \in 1..Len(ScaryWords) : Contains(text, ScaryWords[k])

----------------------------------------------------------------------------
(* Properties of needs_rewrite *)

\* s begins with pre
HasPrefix(s, pre) == Len(s) >= Len(pre) /\ SubSeq(s, 1, Len(pre)) = pre

\* position i of t holds a character that is neither blank nor a terminator
IsSolid(t, i) == ~IsBlankChar(t[i]) /\ ~IsTerminator(t[i])

\* position i holds the first solid character of a sentence: the last
\* non-blank character before it, if there is one, is a terminator
FirstOfSentence(t, i) ==
    /\ IsSolid(t, i)
    /\ LET before == {j \in 1..(i - 1) : ~IsBlankChar(t[j])}
       IN  before = {} \/ IsTerminator(t[CHOOSE j \in before : \A k \in before : k <= j])

\* the number of non-empty sentences of t
CountSentences(t) == Cardinality({i \in 1..Len(t) : FirstOfSentence(t, i)})

\* the number of words of the sentences of t
CountWords(t) ==
    Cardinality({i \in 1..Len(t) : IsSolid(t, i) /\ (i = 1 \/ ~IsSolid(t, i - 1))})

\* t is written with the letters a and b only and averages at most twelve
\* words a sentence: nothing but the number of its sentences can be flagged
NoOtherTrigger(t) ==
    /\ \A i \in 1..Len(t) : t[i] \in {"a", "b"} \cup Whitespace \cup Terminators
    /\ CountWords(t) <= 12 * CountSentences(t)

\* C14: needs_rewrite returns flag = true exactly when its issue list is not
\* empty; the list holds "Too many sentences: N > 8", N the number of non-empty
\* sentences, exactly when N > 8 (and no such entry with another count); a text
\* of exactly 8 sentences with no other trigger returns (false, []).
C14_TooManySentences ==
    op = "needs_rewrite" =>
        LET N == CountSentences(text)
            entry == MsgTooManySentences \o Decimal(N) \o MsgOverEight
        IN  /\ out.flag <=> out.issues # <<>>
            /\ entry \in Range(out.issues) <=> N > 8
            /\ \A k \in 1..Len(out.issues) :
                  HasPrefix(out.issues[k], MsgTooManySentences) => out.issues[k] = entry
            /\ (N = 8 /\ NoOtherTrigger(text)) => out = [flag |-> FALSE, issues |-> <<>>]

\* nine short sentences and nothing else to flag: (true, ["Too many sentences:
\* 9 > 8"])
C14_Witness ==
    /\ op = "needs_rewrite"
    /\ CountSentences(text) = 9
    /\ NoOtherTrigger(text)
    /\ out.flag
    /\ out.issues = <<<<"T","o","o"," ","m","a","n","y"," ","s","e","n","t","e","n","c","e","s",":"," ","9"," ",">"," ","8">>>>

\* C15: the issue list holds at most one "Contains filler" entry, naming the
\* first phrase of FILLER_PHRASES that the lower-cased text holds, and at most
\* one "Contains banned words" entry, naming three of the matching banlist
\* words when more than three match and all of them otherwise; the list never
\* has more than 7 entries.
C15_IssueList ==
    op = "needs_rewrite" =>
        LET fillers == {k \in 1..Len(FILLER_PHRASES) : ContainsFolded(text, FILLER_PHRASES[k])}
            matching == {w \in TECHNICAL_BANLIST : ContainsFolded(text, w)}
            named == IF Cardinality(matching) > 3 THEN 3 ELSE Cardinality(matching)
            fillerEntries == {k \in 1..Len(out.issues) : HasPrefix(out.issues[k], MsgFiller)}
            bannedEntries == {k \in 1..Len(out.issues) : HasPrefix(out.issues[k], MsgBannedWords)}
        IN  /\ Cardinality(fillerEntries) <= 1
            /\ fillerEntries # {} <=> fillers # {}
            /\ \A k \in fillerEntries :
                  out.issues[k] = MsgFiller \o FILLER_PHRASES[Kth(fillers, 1)] \o <<"'">>
            /\ Cardinality(bannedEntries) <= 1
            /\ bannedEntries # {} <=> matching # {}
            /\ \A k \in bannedEntries :
                  /\ Cardinality({i \in 1..Len(out.issues[k]) : out.issues[k][i] = ","}) = named - 1
                  /\ \E words \in FirstOfSet(matching, named) :
                        out.issues[k] = MsgBannedWords \o JoinComma(words)
            /\ Len(out.issues) <= 7

\* all seven entries at once, from a text that holds two filler phrases and
\* more than three banlist words
C15_Witness ==
    /\ op = "needs_rewrite"
    /\ Len(out.issues) = 7
    /\ Cardinality({k \in 1..Len(FILLER_PHRASES) : ContainsFolded(text, FILLER_PHRASES[k])}) >= 2
    /\ Cardinality({w \in TECHNICAL_BANLIST : ContainsFolded(text, w)}) > 3

----------------------------------------------------------------------------
(* Properties of clean_response *)

\* the filler loop from position i on, with origin[k] the position that the
\* k-th character of s has in the text clean_response was given
RECURSIVE TraceFillers(_, _, _)
TraceFillers(s, origin, i) ==
    IF i > Len(egregious_fillers) THEN [s |-> s, origin |-> origin]
    ELSE LET m == FillerMatches(s, Lower(s), egregious_fillers[i], 1)
         IN  TraceFillers(Delete(s, m), Delete(origin, m), i + 1)

\* the positions of t whose characters clean_response(t) is made of, in order
RetainedPositions(t) ==
    LET filtered == TraceFillers(t, [i \in 1..Len(t) |-> i], 1)
        wanted == WantMoreMatches(filtered.s, Lower(filtered.s), 1)
        s2 == Delete(filtered.s, wanted)
        o2 == Delete(filtered.origin, wanted)
        first == Positions([i \in 1..Len(s2) |-> ~(s2[i] \in Blanks /\ i > 1 /\ s2[i - 1] \in Blanks)],
                           1, Len(s2))
        s3 == CollapseBlanks(s2)
        o3 == [k \in 1..Len(first) |-> o2[first[k]]]
        s4 == StripLeadingPunctuation(s3)
        o4 == SubSeq(o3, Len(s3) - Len(s4) + 1, Len(s3))
        lead == Len(s4) - Len(LStrip(s4))
    IN  SubSeq(o4, lead + 1, lead + Len(Strip(s4)))

\* C16: clean_response keeps the newlines: only spaces and tabs are collapsed
\* (a retained character is unchanged, but for a tab turned into a space),
\* and no step removes a newline that lies between two pieces of retained
\* non-whitespace text.
C16_NewlinesPreserved ==
    op = "clean_response" =>
        LET kept == RetainedPositions(text)
            solid == {p \in Range(kept) : text[p] \notin Whitespace}
        IN  /\ Len(kept) = Len(out)
            /\ \A k \in 1..Len(kept) :
                  out[k] = (IF text[kept[k]] = "\t" THEN " " ELSE text[kept[k]])
            /\ \A p \in 1..Len(text) :
                  (/\ text[p] = "\n"
                   /\ \E a \in solid : a < p
                   /\ \E b \in solid : b > p)
                    => p \in Range(kept)

\* s without any occurrence of phrase, in any capitalisation, each taken out
\* with one terminator after it, if there is one, and the whitespace that follows
RECURSIVE RemovePhrase(_, _)
RemovePhrase(s, phrase) ==
    LET occurrences == {i \in 1..(Len(s) - Len(phrase) + 1) :
                          Lower(SubSeq(s, i, i + Len(phrase) - 1)) = phrase}
    IN  IF occurrences = {} THEN s
        ELSE LET first == Kth(occurrences, 1)
                 rest == SubSeq(s, first + Len(phrase), Len(s))
                 afterTerminator == IF rest # <<>> /\ IsTerminator(Head(rest))
                                    THEN Tail(rest) ELSE rest
             IN  SubSeq(s, 1, first - 1) \o RemovePhrase(LStrip(afterTerminator), phrase)

\* the phrases of the list taken out one after the other, from the i-th on
RECURSIVE RemovePhrases(_, _, _)
RemovePhrases(s, phrases, i) ==
    IF i > Len(phrases) THEN s
    ELSE RemovePhrases(RemovePhrase(s, phrases[i]), phrases, i + 1)

\* s without one leading comma or period and the whitespace around it
WithoutLeadingMark(s) ==
    IF LStrip(s) # <<>> /\ Head(LStrip(s)) \in {",", "."}
    THEN LStrip(Tail(LStrip(s))) ELSE s

\* the filler of the list that the text starts with, in any capitalisation
\* (0 when there is none)
LeadingFiller(t) ==
    IF \E k \in 1..Len(egregious_fillers) : HasPrefix(Lower(t), egregious_fillers[k])
    THEN CHOOSE k \in 1..Len(egregious_fillers) : HasPrefix(Lower(t), egregious_fillers[k])
    ELSE 0

----------------------------------------------------------------------------
(* Properties of enforce_kid_safety and truncate_to_two_sentences *)

\* the characters of s that are not whitespace, in order
SolidChars(s) ==
    LET at == Positions([i \in 1..Len(s) |-> ~IsBlankChar(s[i])], 1, Len(s))
    IN  [k \in 1..Len(at) |-> s[at[k]]]

\* clean_response finds nothing to take out of t: no filler, no "want", no
\* leading comma or period
NothingToRemove(t) ==
    /\ \A k \in 1..Len(egregious_fillers) : ~ContainsFolded(t, egregious_fillers[k])
    /\ ~ContainsFolded(t, <<"w","a","n","t">>)
    /\ LStrip(t) = <<>> \/ Head(LStrip(t)) \notin {",", "."}

\* C18: enforce_kid_safety returns (text, false) for the empty text and
\* otherwise (clean_response(text), was_modified), was_modified true exactly
\* when the cleaned text differs from the original; it never truncates: of
\* a text in which clean_response finds nothing to take out, every character
\* but whitespace comes back, and as many sentences.
C18_EnforceKidSafety ==
    op = "enforce_kid_safety" =>
        /\ text = <<>> => out = [cleaned_text |-> <<>>, was_modified |-> FALSE]
        /\ out.cleaned_text = clean_response(text)
        /\ out.was_modified <=> out.cleaned_text # text
        /\ NothingToRemove(text) =>
              /\ SolidChars(out.cleaned_text) = SolidChars(text)
              /\ CountSentences(out.cleaned_text) = CountSentences(text)

\* a filler taken out of the start of a text, the three sentences after it
\* all returned
C18_Witness ==
    /\ op = "enforce_kid_safety"
    /\ LeadingFiller(text) # 0
    /\ out.was_modified
    /\ CountSentences(out.cleaned_text) = 3
    /\ \E i \in 1..Len(text) : SubSeq(text, i, Len(text)) = out.cleaned_text

\* position i holds the last solid character of a sentence
LastOfSentence(t, i) ==
    /\ IsSolid(t, i)
    /\ LET behind == {j \in (i + 1)..Len(t) : ~IsBlankChar(t[j])}
       IN  behind = {} \/ IsTerminator(t[CHOOSE j \in behind : \A k \in behind : j <= k])

\* the non-empty sentences of t, trimmed, in order
SentencesOf(t) ==
    LET starts == {i \in 1..Len(t) : FirstOfSentence(t, i)}
        ends == {i \in 1..Len(t) : LastOfSentence(t, i)}
    IN  [k \in 1..Cardinality(starts) |-> SubSeq(t, Kth(starts, k), Kth(ends, k))]

\* every terminator run of the trimmed text comes straight after a sentence,
\* whitespace apart: none at the start, none after another run
EveryRunFollowsSentence(t) ==
    LET s == Strip(t)
    IN  \A i \in 1..Len(s) :
            (IsTerminator(s[i]) /\ (i = 1 \/ ~IsTerminator(s[i - 1]))) =>
                LET before == {j \in 1..(i - 1) : ~IsBlankChar(s[j])}
                IN  /\ before # {}
                    /\ IsSolid(s, CHOOSE j \in before : \A k \in before : k <= j)

\* the trimmed text up to the third sentence, all of it when there is none
UpToThirdSentence(t) ==
    LET s == Strip(t)
        starts == {i \in 1..Len(s) : FirstOfSentence(s, i)}
    IN  IF Cardinality(starts) <= 2 THEN s
        ELSE Strip(SubSeq(s, 1, Kth(starts, 3) - 1))

\* C19 as stated: the sentences of the result are the first min(2, n)
\* sentences of the text, and a text with at most two sentences is returned
\* unchanged apart from the trimming of its ends.
C19_TruncateAsClaimed ==
    op = "truncate_to_two_sentences" =>
        LET n == CountSentences(text)
        IN  /\ SentencesOf(out) = SubSeq(SentencesOf(text), 1, IF n < 2 THEN n ELSE 2)
            /\ n <= 2 => out = Strip(text)

\* C19 as amended: the sentences of the result are the first min(2, n)
\* sentences of the text; when every terminator run follows a sentence the
\* result is the trimmed text up to the third sentence, each sentence with
\* its own terminator run; a text with at most two sentences is returned
\* unchanged, apart from the trimming, exactly when every terminator run
\* follows a sentence.
C19_TruncateKeepsPairs ==
    op = "truncate_to_two_sentences" =>
        LET n == CountSentences(text)
        IN  /\ SentencesOf(out) = SubSeq(SentencesOf(text), 1, IF n < 2 THEN n ELSE 2)
            /\ EveryRunFollowsSentence(text) => out = UpToThirdSentence(text)
            /\ n <= 2 => (out = Strip(text) <=> EveryRunFollowsSentence(text))

\* a text of three sentences or more cut after the terminator of its second
C19_Witness ==
    /\ op = "truncate_to_two_sentences"
    /\ CountSentences(text) >= 3
    /\ EveryRunFollowsSentence(text)
    /\ CountSentences(out) = 2
    /\ IsTerminator(out[Len(out)])
    /\ \E i \in 1..Len(out) : IsBlankChar(out[i])
    /\ Len(out) < Len(Strip(text))

----------------------------------------------------------------------------
(* Properties of detect_language *)

\* C20: detect_language always returns a tag: "en" when the identifier
\* fails; "pt-PT" exactly when the identifier answered "pt" and the text
\* holds one of the markers in any capitalisation; "pt" when it answered "pt"
\* and no marker is there; the identifier's tag in every other case.
C20_DetectLanguage ==
    op = "detect_language" =>
        LET marker == \E k \in 1..Len(pt_pt_markers) : ContainsFolded(text, pt_pt_markers[k])
        IN  /\ out \in LangTags \cup {"pt-PT"}
            /\ args.raised => out = "en"
            /\ out = "pt-PT" <=> (~args.raised /\ args.lang = "pt" /\ marker)
            /\ (~args.raised /\ args.lang = "pt" /\ ~marker) => out = "pt"
            /\ (~args.raised /\ args.lang # "pt") => out = args.lang

\* a text that holds a marker in capitals only, tagged pt-PT
C20_Witness ==
    /\ op = "detect_language"
    /\ out = "pt-PT"
    /\ \A k \in 1..Len(pt_pt_markers) : ~Contains(text, pt_pt_markers[k])

----------------------------------------------------------------------------
(* Properties of format_for_language *)

\* the pieces of s, in order, each a maximal run of word characters or a
\* maximal run of other characters
WordPieces(s) ==
    LET starts == Positions([i \in 1..Len(s) |->
                               i = 1 \/ IsWordChar(s[i]) # IsWordChar(s[i - 1])],
                            1, Len(s))
    IN  [k \in 1..Len(starts) |->
           SubSeq(s, starts[k], IF k = Len(starts) THEN Len(s) ELSE starts[k + 1] - 1)]

\* the piece itself, or what the mapping gives for it when it is one of the keys
\* in any capitalisation
Translated(piece) ==
    LET hits == {k \in 1..Len(pt_pt_replacements) : Lower(piece) = pt_pt_replacements[k][1]}
    IN  IF hits = {} THEN piece ELSE pt_pt_replacements[CHOOSE k \in hits : TRUE][2]

RECURSIVE TranslatedFrom(_, _)
TranslatedFrom(pieces, k) ==
    IF k > Len(pieces) THEN <<>> ELSE Translated(pieces[k]) \o TranslatedFrom(pieces, k + 1)

\* C21: format_for_language returns the text unchanged for every language
\* other than "pt-PT"; for "pt-PT" exactly the whole words that are a key of
\* the mapping in some capitalisation are replaced by the key's value, a
\* longer word that holds a key stays, and so does everything between the
\* words.
C21_FormatForLanguage ==
    op = "format_for_language" =>
        /\ args.language # "pt-PT" => out = text
        /\ args.language = "pt-PT" => out = TranslatedFrom(WordPieces(text), 1)

\* "tremer" stands in a text whose other words are replaced
C21_Witness ==
    /\ op = "format_for_language"
    /\ args.language = "pt-PT"
    /\ out # text
    /\ Contains(text, <<"t","r","e","m","e","r">>)
    /\ Contains(out, <<"t","r","e","m","e","r">>)
    /\ ~Contains(out, <<"c","o","m","b","o","i","o","e","r">>)

----------------------------------------------------------------------------
(* Properties of the rate limiter *)

\* the task stands inside async with self._lock
InLock(t) == tasks[t].pc \in {"line19", "line29", "line33", "line39", "exit"}

\* the session's recorded requests that lie within the window at the minute now
WithinWindow(session_id, now) ==
    {i \in 1..Len(Recorded(rate_limiter, session_id)) :
        now - Recorded(rate_limiter, session_id)[i] < rate_limiter.window}

\* C22: under every interleaving of the tasks, prune, check and append of one
\* call run without a step of another call in between: at most one task is
\* inside the lock and it holds the lock, what a task has pruned and checked
\* is still so when it goes on, and no session ever holds more than
\* max_requests recorded requests (so never more than that within the window).
C22_AtomicCheckAndRecord ==
    /\ \A t1 \in Tasks, t2 \in Tasks : (t1 # t2 /\ InLock(t1)) => ~InLock(t2)
    /\ \A t \in Tasks : InLock(t) => lock = t
    /\ \A session_id \in Sessions :
          /\ Len(Recorded(rate_limiter, session_id)) <= rate_limiter.max_requests
          /\ Cardinality(WithinWindow(session_id, clock)) <= rate_limiter.max_requests
    /\ \A t \in Tasks :
          tasks[t].fn = "check_rate_limit" =>
             LET reqs == Recorded(rate_limiter, tasks[t].locals.session_id)
             IN  /\ tasks[t].pc \in {"line29", "line33"} =>
                      \A i \in 1..Len(reqs) : tasks[t].locals.now - reqs[i] < rate_limiter.window
                 /\ tasks[t].pc = "line33" => Len(reqs) < rate_limiter.max_requests
                 /\ (tasks[t].pc = "exit" /\ tasks[t].locals.result.allowed) =>
                      /\ reqs # <<>>
                      /\ reqs[Len(reqs)] = tasks[t].locals.now
                 /\ (tasks[t].pc = "exit" /\ ~tasks[t].locals.result.allowed) =>
                      Len(reqs) = rate_limiter.max_requests

\* two requests of one session met when one slot was left: one has taken it and
\* the other still waits for the lock
C22_Witness ==
    \E t1 \in Tasks, t2 \in Tasks :
        /\ t1 # t2
        /\ rate_limiter.max_requests = 2
        /\ tasks[t1].fn = "check_rate_limit" /\ tasks[t1].pc = "exit"
        /\ tasks[t1].locals.result.allowed
        /\ tasks[t2].fn = "check_rate_limit" /\ tasks[t2].pc = "line18"
        /\ tasks[t2].locals.session_id = tasks[t1].locals.session_id
        /\ Len(Recorded(rate_limiter, tasks[t1].locals.session_id)) = 2

\* the entries of reqs that are younger than the window at the minute now
Younger(reqs, now) ==
    LET IsYoung(r) == now - r < rate_limiter.window
    IN  SelectSeq(reqs, IsYoung)

\* C24: a step changes a session's sequence only as a line of a
\* check_rate_limit call for that session does: the pruning leaves exactly
\* the entries younger than the window, the recording appends the call's
\* current time, and that happens exactly when the call is allowed; a denied
\* call appends nothing; get_remaining, the lock, the clock and the calls for
\* other sessions remove and add nothing.
C24_OnlyOwnSequence ==
    [][/\ \A session_id \in Sessions :
             Recorded(rate_limiter', session_id) # Recorded(rate_limiter, session_id) =>
                \E t \in Tasks :
                    /\ tasks[t].fn = "check_rate_limit"
                    /\ tasks[t].locals.session_id = session_id
                    /\ tasks'[t].pc # tasks[t].pc
                    /\ tasks[t].pc \in {"line19", "line33"}
       /\ \A t \in Tasks :
             (tasks[t].fn = "check_rate_limit" /\ tasks'[t].pc # tasks[t].pc) =>
                LET session_id == tasks[t].locals.session_id
                    before == Recorded(rate_limiter, session_id)
                    after == Recorded(rate_limiter', session_id)
                IN  /\ tasks[t].pc = "line19" =>
                         /\ after = Younger(before, clock)
                         /\ tasks'[t].locals.now = clock
                    /\ tasks[t].pc = "line29" =>
                         /\ after = before
                         /\ tasks'[t].pc = "exit" <=> Len(before) >= rate_limiter.max_requests
                         /\ tasks'[t].pc = "exit" => ~tasks'[t].locals.result.allowed
                         /\ tasks'[t].pc # "exit" => tasks'[t].pc = "line33"
                    /\ tasks[t].pc = "line33" =>
                         /\ after = Append(before, tasks[t].locals.now)
                         /\ tasks'[t].pc = "exit"
                         /\ tasks'[t].locals.result.allowed
                    /\ tasks[t].pc \in {"line18", "exit"} => after = before
      ]_vars

\* a call has just pruned every entry of its session while the other session's
\* entries stand
C24_Witness ==
    \E t \in Tasks, other \in Sessions :
        /\ tasks[t].fn = "check_rate_limit"
        /\ tasks[t].pc = "line29"
        /\ tasks[t].locals.session_id \in DOMAIN rate_limiter.requests
        /\ Recorded(rate_limiter, tasks[t].locals.session_id) = <<>>
        /\ other # tasks[t].locals.session_id
        /\ Len(Recorded(rate_limiter, other)) = 2

\* the oldest of the recorded requests
Oldest(reqs) == CHOOSE r \in Range(reqs) : \A q \in Range(reqs) : r <= q

\* a check_rate_limit call for the session has just been denied, or allowed
Denied(session_id) ==
    \E t \in Tasks : /\ tasks[t].fn = "check_rate_limit" /\ tasks[t].pc = "exit"
                     /\ tasks[t].locals.session_id = session_id
                     /\ ~tasks[t].locals.result.allowed
Admitted(session_id) ==
    \E t \in Tasks : /\ tasks[t].fn = "check_rate_limit" /\ tasks[t].pc = "exit"
                     /\ tasks[t].locals.session_id = session_id
                     /\ tasks[t].locals.result.allowed

WouldAllow(session_id, now) ==
    Len(Pruned(Recorded(rate_limiter, session_id), now, rate_limiter.window))
        < rate_limiter.max_requests

\* C27: at every instant and for every session, get_remaining is max_requests
\* less the number of recorded requests within the window, lies in
\* 0..max_requests, and is positive exactly when check_rate_limit would allow
\* a request at that instant; what a get_remaining call returns is that number
\* for the instant it read the clock; and no line of get_remaining changes the
\* limiter.
C27_RemainingAgrees ==
    /\ [](\A session_id \in Sessions :
            LET remaining == get_remaining(rate_limiter, session_id, clock)
            IN  /\ remaining = rate_limiter.max_requests
                                 - Cardinality(WithinWindow(session_id, clock))
                /\ remaining \in 0..rate_limiter.max_requests
                /\ WouldAllow(session_id, clock) <=> remaining > 0)
    /\ [](\A t \in Tasks :
            (tasks[t].fn = "get_remaining" /\ tasks[t].pc = "exit") =>
               tasks[t].locals.result =
                  rate_limiter.max_requests
                    - Cardinality(WithinWindow(tasks[t].locals.session_id,
                                               tasks[t].locals.now)))
    /\ [][\A t \in Tasks :
            (tasks[t].fn = "get_remaining" /\ tasks'[t] # tasks[t]) =>
               rate_limiter' = rate_limiter]_vars

\* get_remaining has answered a number between the two ends for a session
\* that holds a request older than the window
C27_Witness ==
    \E t \in Tasks :
        /\ tasks[t].fn = "get_remaining"
        /\ tasks[t].pc = "exit"
        /\ tasks[t].locals.result > 0
        /\ tasks[t].locals.result < rate_limiter.max_requests
        /\ Cardinality(WithinWindow(tasks[t].locals.session_id, tasks[t].locals.now))
             < Len(Recorded(rate_limiter, tasks[t].locals.session_id))

----------------------------------------------------------------------------
(* Properties on degenerate input *)

\* C23: for the empty text and for a text of whitespace only, evaluate
\* returns metrics with sentence_count 0, avg_words_per_sentence 0,
\* max_words_in_sentence 0 and readability_score 100.0; needs_rewrite,
\* clean_response, truncate_to_two_sentences and enforce_kid_safety return a
\* value of their result type, which for the empty text is (False, []), "",
\* "" and ("", False).
C23_DegenerateInput ==
    Strip(text) = <<>> =>
        /\ op = "evaluate" =>
              /\ out.sentence_count = 0
              /\ out.avg_words_per_sentence = Int2Rat(0)
              /\ out.max_words_in_sentence = 0
              /\ out.readability_score = Int2Rat(100)
        /\ op = "needs_rewrite" =>
              /\ out.flag \in BOOLEAN
              /\ out.issues \in Seq(Seq(Chars))
              /\ text = <<>> => out = [flag |-> FALSE, issues |-> <<>>]
        /\ op = "clean_response" =>
              /\ out \in Seq(Chars)
              /\ text = <<>> => out = <<>>
        /\ op = "truncate_to_two_sentences" =>
              /\ out \in Seq(Chars)
              /\ text = <<>> => out = <<>>
        /\ op = "enforce_kid_safety" =>
              /\ out.cleaned_text \in Seq(Chars)
              /\ out.was_modified \in BOOLEAN
              /\ text = <<>> => out = [cleaned_text |-> <<>>, was_modified |-> FALSE]

\* evaluate has answered for a text of whitespace only
C23_Witness ==
    /\ op = "evaluate"
    /\ text # <<>>
    /\ Strip(text) = <<>>
    /\ out.readability_score = Int2Rat(100)
    /\ out.passed

----------------------------------------------------------------------------
(* Properties of the /ask request flow *)

\* the question holds one of the unsafe keywords in some capitalisation
HasUnsafeKeyword(question) ==
    \E k \in 1..Len(unsafe_keywords) : ContainsFolded(question, unsafe_keywords[k])

\* C25: the language model is called only by a request whose topic check has
\* answered true, and only at the line of the generate call; a question that
\* holds an unsafe keyword never reaches the language model or the
\* conversation log, and its request ends at the topic check with the fixed
\* safety message.
C25_SafetyBeforeGenerate ==
    /\ [](/\ \A i \in 1..Len(llm_calls) : ~HasUnsafeKeyword(llm_calls[i].user)
          /\ \A i \in 1..Len(log) : ~HasUnsafeKeyword(log[i].question)
          /\ \A t \in Tasks :
                tasks[t].fn = "ask" =>
                   /\ tasks[t].pc \in {"line207", "awaiting", "line227"} =>
                         tasks[t].locals.is_safe = TRUE
                   /\ (HasUnsafeKeyword(tasks[t].locals.question)
                         /\ tasks[t].pc # "line151") =>
                         /\ tasks[t].pc = "returned"
                         /\ tasks[t].locals.result =
                               [status |-> 200, response |-> SafetyMessage])
    /\ [][/\ llm_calls' # llm_calls =>
               \E t \in Tasks :
                   /\ tasks[t].fn = "ask" /\ tasks[t].pc = "line207"
                   /\ tasks[t].locals.is_safe = TRUE
                   /\ llm_calls' = Append(llm_calls, [user |-> tasks[t].locals.question])
          /\ \A t \in Tasks :
               (tasks[t].fn = "ask" /\ HasUnsafeKeyword(tasks[t].locals.question)
                  /\ tasks'[t] # tasks[t]) =>
                   (llm_calls' = llm_calls /\ log' = log)
         ]_vars

\* a question with a keyword in capitals has been answered with the safety
\* message while another request has been through the language model and the log
C25_Witness ==
    \E t \in Tasks :
        /\ tasks[t].fn = "ask"
        /\ tasks[t].pc = "returned"
        /\ tasks[t].locals.result = [status |-> 200, response |-> SafetyMessage]
        /\ ~(is_safe_topic_case_sensitive(tasks[t].locals.question).is_safe
               <=> is_safe_topic(tasks[t].locals.question).is_safe)
        /\ Len(llm_calls) = 1
        /\ Len(log) = 1

----------------------------------------------------------------------------
(* The ranges of the fields of EvaluationMetrics *)

\* C28: in every EvaluationMetrics that evaluate returns, sentence_count and
\* complex_word_count are not negative, readability_score lies in 0..100,
\* 0 <= avg_words_per_sentence <= max_words_in_sentence, the three of
\* sentence_count, max_words_in_sentence and avg_words_per_sentence are zero
\* together, and avg_words_per_sentence is at least 1 when there is a sentence.
C28_MetricsRanges ==
    op = "evaluate" =>
        /\ out.sentence_count >= 0
        /\ out.complex_word_count >= 0
        /\ RLe(Int2Rat(0), out.readability_score)
        /\ RLe(out.readability_score, Int2Rat(100))
        /\ RLe(Int2Rat(0), out.avg_words_per_sentence)
        /\ RLe(out.avg_words_per_sentence, Int2Rat(out.max_words_in_sentence))
        /\ out.sentence_count = 0 <=> out.max_words_in_sentence = 0
        /\ out.max_words_in_sentence = 0 <=> out.avg_words_per_sentence = Int2Rat(0)
        /\ out.sentence_count > 0 => RLe(Int2Rat(1), out.avg_words_per_sentence)

\* sentences of different lengths, and a readability strictly inside the range
C28_Witness ==
    /\ op = "evaluate"
    /\ out.sentence_count >= 2
    /\ RLt(out.avg_words_per_sentence, Int2Rat(out.max_words_in_sentence))
    /\ RLt(Int2Rat(1), out.avg_words_per_sentence)
    /\ RLt(Int2Rat(0), out.readability_score)
    /\ RLt(out.readability_score, Int2Rat(100))
    /\ out.complex_word_count > 0

----------------------------------------------------------------------------
(* clean_response applied to its own result *)

HasFiller(t) == \E k \in 1..Len(egregious_fillers) : ContainsFolded(t, egregious_fillers[k])

HasWantMore(t) == \E i \in 1..Len(t) : WantMoreEnd(t, Lower(t), i) # 0

StartsWithMark(t) == t # <<>> /\ t[1] \in {",", "."}

\* a second cleanup finds nothing in t
Settled(t) == ~HasFiller(t) /\ ~HasWantMore(t) /\ ~StartsWithMark(t)

\* C29 as stated: clean_response(clean_response(text)) = clean_response(text)
\* for every text, enforce_kid_safety of its own cleaned output reports
\* was_modified = false, and the cleaned output holds no egregious filler and
\* no want-more pattern.
C29_Idempotent ==
    /\ op = "clean_response" =>
          /\ clean_response(out) = out
          /\ ~HasFiller(out)
          /\ ~HasWantMore(out)
    /\ op = "enforce_kid_safety" =>
          ~enforce_kid_safety(out.cleaned_text).was_modified

\* C29: clean_response makes one pass, so cleaning its result again gives
\* the same text exactly when the result holds no egregious filler in any
\* capitalisation, no want-more pattern and no comma or period at its start;
\* otherwise the second cleanup gives a shorter text, and enforce_kid_safety
\* of its own cleaned output reports was_modified = true in exactly those cases.
C29_IdempotentWhenSettled ==
    /\ op = "clean_response" =>
          LET again == clean_response(out)
          IN  /\ again = out <=> Settled(out)
              /\ again # out => Len(again) < Len(out)
    /\ op = "enforce_kid_safety" =>
          (enforce_kid_safety(out.cleaned_text).was_modified <=> ~Settled(out.cleaned_text))

\* a removal has brought the two halves of a filler together: the result
\* holds a filler, and a second cleanup takes it out
C29_Witness ==
    /\ op = "clean_response"
    /\ out # text
    /\ HasFiller(out)
    /\ ~StartsWithMark(out)
    /\ clean_response(out) # out

----------------------------------------------------------------------------
(* Properties of chunk_text *)

\* the words of the chunks from the k-th chunk on, in chunk order
RECURSIVE WordsOfChunks(_, _)
WordsOfChunks(chunks, k) ==
    IF k > Len(chunks) THEN <<>>
    ELSE Split(chunks[k]) \o WordsOfChunks(chunks, k + 1)

\* C30: chunk_text loses no content: for every text and every
\* max_chunk_size >= 1 the words of the returned chunks, in chunk order, are
\* the words of the input in the same order, and a non-blank input gives at
\* least one chunk.
C30_NoContentLost ==
    op = "chunk_text" =>
        /\ WordsOfChunks(out, 1) = Split(text)
        /\ Strip(text) # <<>> => Len(out) >= 1

============================================================================
